---- MODULE Spec2Model ----
(***************************************************************************)
(* Model of the bounded worker pool of patterns/workerpool.go              *)
(* (WorkerPoolHandler): a buffered job channel, a fixed set of worker      *)
(* goroutines, submitters entering through ServeHTTP or HandleRequest,     *)
(* per-job result channels, and Shutdown.                                  *)
(* Further parts model one call of simulator.Database.QueryPatient in      *)
(* time, the container reuse (sync.Pool) of OptimizedHandler, and the      *)
(* metrics Collector: its methods over a clock, the callers of its        *)
(* methods under its read-write lock, and its percentile function in      *)
(* float64 arithmetic.                                                     *)
(*                                                                         *)
(* Go's select is modelled as the language defines it: every case that can *)
(* proceed is a possible step, default is taken only when no other case    *)
(* can proceed, and a send on a closed channel panics.                     *)
(***************************************************************************)
EXTENDS Integers, Sequences, FiniteSets, TLC

\* Bounds of the model: the configurations and the number of submissions explored.
MaxWorkers == 2
MaxQueueSize == 2
\* Submissions made in a run of the pool, and the most any specification makes.
PoolJobs == 2
MaxJobs == 3

\* Variant: make(chan ...) without a buffer.
UnbufferedCap == Len(<<>>)

\* make(chan ..., 1) for resultChan and errChan of every job.
ResultChanCap == 1

Jobs == 1..MaxJobs
WorkerIds == 1..MaxWorkers
NoJob == 0

VARIABLES
    workers,      \* h.workers (config.Workers)
    queueSize,    \* h.queueSize (config.QueueSize), the capacity of jobQueue
    njobs,        \* number of submissions the callers make in this run
    jobQueue,     \* buffer of h.jobQueue: sequence of jobs
    closed,       \* h.jobQueue has been closed
    poolCtxDone,  \* h.ctx is cancelled
    wg,           \* h.wg counter
    activeJobs,   \* h.activeJobs
    queuedJobs,   \* h.queuedJobs
    wpc,          \* position of each worker goroutine
    wjob,         \* the job a worker holds
    wres,         \* what QueryPatient returned to the worker
    spc,          \* position of each submitter (one per job)
    jctx,         \* the job's context is Done
    outcome,      \* what the submitter's call produced
    resultChan,   \* buffer of j.resultChan
    errChan,      \* buffer of j.errChan
    shpc,         \* position of the Shutdown caller
    shCtxDone,    \* the context passed to Shutdown is Done
    shResult,     \* what Shutdown returned
    shCall,       \* history: the state Shutdown was called in
    patientID,    \* the request key of each submission
    enqLog,       \* history: jobs in the order their sends on jobQueue completed
    deqLog,       \* history: jobs in the order workers received them
    written,      \* history: number of sends completed on resultChan or errChan, per job
    queries,      \* history: number of QueryPatient calls, per job
    qpc,          \* position of a caller inside Database.QueryPatient
    qin,          \* the configuration and the inputs of that call
    qlatency,     \* latency := db.getRandomLatency()
    qnow,         \* time elapsed since the call entered its select
    qresult,      \* what the call returned
    responsePool, \* OptimizedHandler.responsePool: the idle containers
    resp,         \* the fields of every PatientResponse container
    nextResp,     \* number of containers responsePool.New has constructed
    poolHits,     \* h.poolHits
    poolMisses,   \* h.poolMisses
    opc,          \* position of the worker processing each optimized job
    oresp,        \* the container that worker holds (response)
    octx,         \* the optimized job's context is Done
    ochan,        \* the optimized job's resultChan and errChan
    osub,         \* position of the optimized job's submitter
    ocaller,      \* the container the job's submitter holds
    acquires,     \* history: number of getResponse calls
    reuses,       \* history: number of times Get returned an idle container
    handed,       \* history: number of times each container was acquired
    released,     \* history: number of times each container was put back
    osettled,     \* history: the job's container was put back or received
    col,          \* metrics.Collector: counters, latencies, startTime, endTime
    now,          \* the clock read by time.Now()
    lastStats,    \* the snapshot of the latest GetStats since the last mutation
    prevStats,    \* the snapshot of the GetStats before it, likewise
    firstRecord,  \* history: the time of the first record since construction or Reset
    frozen,       \* history: the duration of the first snapshot after a Stop
    pcall,        \* the latest call of percentile: its argument and its result
    mu,           \* Collector.mu: active readers, pending writer, write-held
    tpc,          \* position of each caller of the Collector
    top,          \* the method each caller is in
    treg,         \* the value a caller has loaded for an increment
    tstats,       \* the snapshot each caller's latest GetStats returned
    tcalls,       \* number of calls each caller has made
    recorded,     \* history: record calls completed since the last Reset
    concurrency,  \* config.Concurrency: the load test's submitting goroutines
    errorRate,    \* db.errorRate, in per cent
    logged,       \* history: the load test has recorded the outcome of the job
    sh2,          \* what a second call of Shutdown on the same pool came to
    arrived,      \* the optimized job's request has entered the handler
    peak,         \* history: the most optimized requests in flight at once
    rw,           \* the http.ResponseWriter of each request to ServeHTTP
    activeGoroutines, \* NaiveHandler.activeGoroutines
    npc,          \* naive requests: the entry point, the caller and the goroutine
    nshut         \* the caller of NaiveHandler.Shutdown

vars == <<workers, queueSize, njobs, jobQueue, closed, poolCtxDone, wg, activeJobs,
          queuedJobs, wpc, wjob, wres, spc, jctx, outcome, resultChan, errChan,
          shpc, shCtxDone, shResult, shCall, patientID, enqLog, deqLog, written,
          queries, qpc, qin, qlatency, qnow, qresult, responsePool, resp,
          nextResp, poolHits, poolMisses, opc, oresp, octx, ochan, osub,
          ocaller, acquires, reuses, handed, released, osettled, col, now,
          lastStats, prevStats, firstRecord, frozen, pcall, mu, tpc, top, treg,
          tstats, tcalls, recorded, concurrency, errorRate, logged, sh2,
          arrived, peak, rw, activeGoroutines, npc, nshut>>

\* The state of the optimized handler's container reuse.
reuseVars == <<responsePool, resp, nextResp, poolHits, poolMisses, opc, oresp,
               octx, ochan, osub, ocaller, acquires, reuses, handed, released,
               osettled>>

\* The state of one timed call of the source, which the handlers never touch.
simVars == <<qpc, qin, qlatency, qnow, qresult>>

\* The Collector used through its methods over a clock, and its callers
\* under its lock; the handlers never touch it.
metricsVars == <<col, now, lastStats, prevStats, firstRecord, frozen, pcall>>
lockVars == <<mu, tpc, top, treg, tstats, tcalls, recorded>>
\* The load test's configuration and its record of the outcomes.
loadVars == <<concurrency, errorRate, logged>>
\* The arrivals of the optimized handler's requests, the response writers,
\* and the naive handler.
warmVars == <<arrived, peak>>
naiveVars == <<activeGoroutines, npc, nshut>>
otherVars == <<sh2, warmVars, rw, naiveVars>>
statVars == <<metricsVars, lockVars, loadVars, otherVars>>

poolVars == <<workers, queueSize, njobs, patientID, closed, poolCtxDone, simVars,
              reuseVars, statVars>>
workerVars == <<wpc, wjob, wres>>
shutdownVars == <<shpc, shCtxDone, shResult, shCall>>

-----------------------------------------------------------------------------
\* Channel primitives (Go language semantics of a buffered channel)

\* Variant: a buffer that takes one element more than its capacity.
CanSendOffByOne(buf, cap) == Len(buf) <= cap

\* A send on a buffered channel can proceed without blocking.
CanSend(buf, cap) == Len(buf) < cap

\* Variant: a receive that takes the newest element.
ReceiveNewest(buf) ==
    [item |-> buf[Len(buf)], rest |-> SubSeq(buf, 1, Len(buf) - 1)]

\* A receive on a non-empty buffer takes the oldest element.
Receive(buf) == [item |-> Head(buf), rest |-> Tail(buf)]

-----------------------------------------------------------------------------
\* Construction

\* startWorkers: the loop "for i := 0; i < h.workers; i++ { wg.Add(1); go worker(i) }".
\* Returns the set of workers spawned after i iterations have been done from n.
RECURSIVE startWorkersFrom(_, _)
startWorkersFrom(i, n) ==
    IF i < n THEN {i + 1} \cup startWorkersFrom(i + 1, n) ELSE {}

startWorkers(n) == startWorkersFrom(0, n)

\* The state NewWorkerPoolHandler returns, for a configuration (nw, q) and n callers.
Constructed(nw, q, n) ==
    /\ workers = nw
    /\ queueSize = q
    /\ njobs = n
    /\ jobQueue = <<>>
    /\ closed = FALSE
    /\ poolCtxDone = FALSE
    /\ wg = Cardinality(startWorkers(workers))
    /\ activeJobs = 0
    /\ queuedJobs = 0
    /\ wpc = [w \in WorkerIds |-> IF w \in startWorkers(workers) THEN "loop" ELSE "none"]
    /\ wjob = [w \in WorkerIds |-> NoJob]
    /\ wres = [w \in WorkerIds |-> "none"]
    /\ spc = [j \in Jobs |-> "idle"]
    /\ jctx = [j \in Jobs |-> FALSE]
    /\ outcome = [j \in Jobs |-> "none"]
    /\ resultChan = [j \in Jobs |-> <<>>]
    /\ errChan = [j \in Jobs |-> <<>>]
    /\ shpc = "idle"
    /\ shCtxDone = FALSE
    /\ shResult = "none"
    /\ shCall = [expired |-> FALSE, held |-> {}]
    /\ enqLog = <<>>
    /\ deqLog = <<>>
    /\ written = [j \in Jobs |-> 0]
    /\ queries = [j \in Jobs |-> 0]

\* The request keys: a patient id, or the empty string of a request without one.
ValidID == "P"
PatientIDs == {"", ValidID}

\* Every submission carries a patient id.
KeysPresent == patientID = [j \in Jobs |-> ValidID]

\* Bound: the jobs the optimized handler processes in a run.
ReuseJobs == 2

OptJobs == 1..ReuseJobs
\* Containers that New can construct: at most one per acquire.
Containers == 1..ReuseJobs
NoResp == 0

\* &models.PatientResponse{}: every field at its zero value. A payload, an
\* error text and a timestamp are named by the job they were produced for.
EmptyResponse ==
    [Success |-> FALSE, Patient |-> 0, Error |-> 0, Timestamp |-> 0, RequestID |-> 0]

\* NewOptimizedHandler: an empty responsePool and counters at zero.
NewOptimizedHandler ==
    /\ responsePool = {}
    /\ resp = [c \in Containers |-> EmptyResponse]
    /\ nextResp = 0
    /\ poolHits = 0
    /\ poolMisses = 0
    /\ opc = [j \in OptJobs |-> "start"]
    /\ oresp = [j \in OptJobs |-> NoResp]
    /\ octx = [j \in OptJobs |-> FALSE]
    /\ ochan = [j \in OptJobs |-> [resp |-> NoResp, err |-> FALSE]]
    /\ osub = [j \in OptJobs |-> "wait"]
    /\ ocaller = [j \in OptJobs |-> NoResp]
    /\ acquires = 0
    /\ reuses = 0
    /\ handed = [c \in Containers |-> 0]
    /\ released = [c \in Containers |-> 0]
    /\ osettled = [j \in OptJobs |-> FALSE]

\* No timed call of the source is under way.
NoCall ==
    /\ qpc = "idle"
    /\ qin = [min |-> 0, max |-> 0, fail |-> FALSE, hasDeadline |-> FALSE,
               cancelAt |-> 0, err |-> "none"]
    /\ qlatency = 0
    /\ qnow = 0
    /\ qresult = [kind |-> "none", wraps |-> "none"]

\* Bounds of the Collector part: the clock, the record calls, the callers and
\* the calls each of them makes, the length of the lists given to percentile.
MaxClock == 4
MaxRecords == 2
MaxThreads == 2
MaxCalls == 2
MaxSamples == 50

Threads == 1..MaxThreads

\* time.Time{}, the zero time; the clock starts after it.
ZeroTime == 0

\* No snapshot has been taken.
NoStats == [Taken |-> FALSE]

\* No call of percentile has been made.
NoPercentile == [p |-> 0, out |-> 0, below |-> 0, done |-> FALSE]

\* NewCollector, and Reset's assignments, at time t
NewCollector(t) ==
    [totalRequests |-> 0, successRequests |-> 0, errorRequests |-> 0,
     rejectedRequests |-> 0, latencies |-> <<>>, startTime |-> t,
     endTime |-> ZeroTime]

\* A Collector just constructed, with no snapshot taken
CollectorCreated ==
    /\ now = ZeroTime + 1
    /\ col = NewCollector(now)
    /\ lastStats = NoStats
    /\ prevStats = NoStats
    /\ firstRecord = ZeroTime
    /\ frozen = {}
    /\ pcall = NoPercentile

\* The Collector's lock is free and no caller is inside a method.
IdleCallers ==
    /\ mu = [readers |-> 0, writer |-> 0, held |-> FALSE]
    /\ tpc = [t \in Threads |-> "idle"]
    /\ top = [t \in Threads |-> "none"]
    /\ treg = [t \in Threads |-> 0]
    /\ tstats = [t \in Threads |-> NoStats]
    /\ tcalls = [t \in Threads |-> 0]
    /\ recorded = 0

\* ErrorRate = 0.05, the default error probability of the source, in per cent.
DefaultErrorRate == 5

\* No load test is run: every submission has its own caller, the source has
\* its default error rate.
NoLoadTest ==
    /\ concurrency = MaxJobs
    /\ errorRate = DefaultErrorRate
    /\ logged = [j \in Jobs |-> FALSE]

\* Bound: the requests made to the naive handler.
NaiveRequests == 2

NaiveJobs == 1..NaiveRequests

\* A response writer nothing has been written to: an empty header map, no
\* status line sent.
NewResponseWriter ==
    [header |-> {}, wroteHeader |-> FALSE, status |-> 0, sent |-> {}, body |-> 0,
     calls |-> 0]

\* No request has reached the optimized handler.
NoArrivals ==
    /\ arrived = [j \in OptJobs |-> FALSE]
    /\ peak = 0

\* NewNaiveHandler: activeGoroutines at zero, no request made, Shutdown not called.
NewNaiveHandler ==
    /\ activeGoroutines = 0
    /\ npc = [r \in NaiveJobs |-> [entry |-> "none", caller |-> "idle", gor |-> "none"]]
    /\ nshut = [pc |-> "idle", active |-> 0, ctxDone |-> FALSE, result |-> "none",
                running |-> 0]

\* No second call of Shutdown, no arrival, nothing written, no naive request.
OthersIdle ==
    /\ sh2 = "none"
    /\ NoArrivals
    /\ rw = [j \in Jobs |-> NewResponseWriter]
    /\ NewNaiveHandler

Init ==
    /\ \E nw \in 1..MaxWorkers, q \in 1..MaxQueueSize : Constructed(nw, q, PoolJobs)
    /\ KeysPresent
    /\ NoCall
    /\ NewOptimizedHandler
    /\ CollectorCreated
    /\ IdleCallers
    /\ NoLoadTest
    /\ OthersIdle

\* shouldSimulateError: "return rng.Float64() < db.errorRate", with Float64
\* in [0, 1): never true at rate 0, either way at a rate between 0 and 1.
shouldSimulateError == IF errorRate > 0 THEN BOOLEAN ELSE {FALSE}

-----------------------------------------------------------------------------
\* The latency/error source as processJob sees it (simulator.Database.QueryPatient)
\* when the simulated delay is positive and shorter than ContextTimeout (as with
\* the default 50..100 ms against 5 s): its select returns "query cancelled" if
\* the job's context is Done before the delay has elapsed, and otherwise a
\* record or a simulated database error. A context that is Done only after the
\* delay has elapsed is a CancelJob step that follows this one.
QueryPatient(ctxDone) ==
    IF ctxDone
    THEN {"cancelerr"}
    ELSE {IF e THEN "dberr" ELSE "patient" : e \in shouldSimulateError}

\* GetStats: the two counters, loaded atomically, and the queue capacity.
GetStats == <<activeJobs, queuedJobs, queueSize>>

-----------------------------------------------------------------------------
\* worker: "for { select { case <-h.ctx.Done(): return
\*                         case job, ok := <-h.jobQueue: ... } }"

\* case <-h.ctx.Done(): return (the deferred wg.Done runs)
WorkerExitCancelled(w) ==
    /\ wpc[w] = "loop"
    /\ poolCtxDone
    /\ wpc' = [wpc EXCEPT ![w] = "exited"]
    /\ wg' = wg - 1
    /\ UNCHANGED <<poolVars, jobQueue, activeJobs, queuedJobs, wjob, wres, spc,
                   jctx, outcome, resultChan, errChan, shutdownVars,
                   enqLog, deqLog, written, queries>>

\* case job, ok := <-h.jobQueue with !ok: the channel is closed and drained
WorkerExitClosed(w) ==
    /\ wpc[w] = "loop"
    /\ closed
    /\ jobQueue = <<>>
    /\ wpc' = [wpc EXCEPT ![w] = "exited"]
    /\ wg' = wg - 1
    /\ UNCHANGED <<poolVars, jobQueue, activeJobs, queuedJobs, wjob, wres, spc,
                   jctx, outcome, resultChan, errChan, shutdownVars,
                   enqLog, deqLog, written, queries>>

\* case job, ok := <-h.jobQueue with ok: the worker receives the oldest job
WorkerDequeue(w) ==
    /\ wpc[w] = "loop"
    /\ jobQueue # <<>>
    /\ wjob' = [wjob EXCEPT ![w] = Receive(jobQueue).item]
    /\ jobQueue' = Receive(jobQueue).rest
    /\ deqLog' = Append(deqLog, Receive(jobQueue).item)
    /\ wpc' = [wpc EXCEPT ![w] = "count"]
    /\ UNCHANGED <<poolVars, wg, activeJobs, queuedJobs, wres, spc, jctx,
                   outcome, resultChan, errChan, shutdownVars, enqLog, written,
                   queries>>

\* processJob: atomic.AddInt64(&h.activeJobs, 1); atomic.AddInt64(&h.queuedJobs, -1)
\* (two adjacent atomic updates of different counters: one step)
ProcessCount(w) ==
    /\ wpc[w] = "count"
    /\ activeJobs' = activeJobs + 1
    /\ queuedJobs' = queuedJobs - 1
    /\ wpc' = [wpc EXCEPT ![w] = "query"]
    /\ UNCHANGED <<poolVars, jobQueue, wg, wjob, wres, spc, jctx, outcome,
                   resultChan, errChan, shutdownVars, enqLog, deqLog, written,
                   queries>>

\* Variant: the source is called again after a database error.
AfterQueryRetry(r) == IF r = "dberr" THEN "query" ELSE "deliver"

\* Where processJob goes once QueryPatient has returned r: on to the delivery
\* of the outcome, whatever r is (the source is called once, no retry).
AfterQuery(r) == "deliver"

\* Variant: the source is called under the pool's context as well.
QueryCtxShared(w) == jctx[wjob[w]] \/ poolCtxDone

\* The context processJob passes to the source: the job's own, j.ctx.
QueryCtx(w) == jctx[wjob[w]]

\* processJob: patient, err := h.db.QueryPatient(j.ctx, j.patientID)
ProcessQuery(w) ==
    /\ wpc[w] = "query"
    /\ \E r \in QueryPatient(QueryCtx(w)) :
          /\ wres' = [wres EXCEPT ![w] = r]
          /\ wpc' = [wpc EXCEPT ![w] = AfterQuery(r)]
    /\ queries' = [queries EXCEPT ![wjob[w]] = @ + 1]
    /\ UNCHANGED <<poolVars, jobQueue, wg, activeJobs, queuedJobs, wjob, spc,
                   jctx, outcome, resultChan, errChan, shutdownVars,
                   enqLog, deqLog, written>>

\* Variant: processJob without the deferred decrement.
ActiveAfterReturnNoDefer(a) == a

\* What the worker does with activeJobs when processJob returns
\* (defer atomic.AddInt64(&h.activeJobs, -1)).
ActiveAfterReturn(a) == a - 1

\* Variant: the worker leaves its loop after one job.
AfterProcessJobExit == "stopped"

\* Where the worker goes when processJob returns: back to the select of its loop.
AfterProcessJob == "loop"

\* processJob returns to the worker loop.
ProcessReturn(w) ==
    /\ wpc' = [wpc EXCEPT ![w] = AfterProcessJob]
    /\ wjob' = [wjob EXCEPT ![w] = NoJob]
    /\ wres' = [wres EXCEPT ![w] = "none"]
    /\ activeJobs' = ActiveAfterReturn(activeJobs)

\* Variant: the error branch falls through to the success delivery.
ErrBranchFallsThrough == FALSE

\* The error branch of processJob ends with "return".
ErrBranchReturns == TRUE

\* After the select of the error branch.
AfterErrSelect(w) ==
    IF ErrBranchReturns
    THEN ProcessReturn(w)
    ELSE /\ wres' = [wres EXCEPT ![w] = "patient"]
         /\ UNCHANGED <<wpc, wjob, activeJobs>>

\* err != nil: "select { case j.errChan <- err: ... }"
ProcessDeliverErr(w) ==
    /\ wpc[w] = "deliver"
    /\ wres[w] \in {"dberr", "cancelerr"}
    /\ CanSend(errChan[wjob[w]], ResultChanCap)
    /\ errChan' = [errChan EXCEPT ![wjob[w]] = Append(@, wres[w])]
    /\ written' = [written EXCEPT ![wjob[w]] = @ + 1]
    /\ AfterErrSelect(w)
    /\ UNCHANGED <<poolVars, jobQueue, wg, queuedJobs, spc, jctx, outcome,
                   resultChan, shutdownVars, enqLog, deqLog, queries>>

\* err == nil: "select { case j.resultChan <- response: ... }"
ProcessDeliverResult(w) ==
    /\ wpc[w] = "deliver"
    /\ wres[w] = "patient"
    /\ CanSend(resultChan[wjob[w]], ResultChanCap)
    /\ resultChan' = [resultChan EXCEPT ![wjob[w]] = Append(@, wjob[w])]
    /\ written' = [written EXCEPT ![wjob[w]] = @ + 1]
    /\ ProcessReturn(w)
    /\ UNCHANGED <<poolVars, jobQueue, wg, queuedJobs, spc, jctx, outcome,
                   errChan, shutdownVars, enqLog, deqLog, queries>>

\* either select: "case <-j.ctx.Done(): // Caller no longer waiting"
ProcessDeliverAbandon(w) ==
    /\ wpc[w] = "deliver"
    /\ jctx[wjob[w]]
    /\ IF wres[w] = "patient" THEN ProcessReturn(w) ELSE AfterErrSelect(w)
    /\ UNCHANGED <<poolVars, jobQueue, wg, queuedJobs, spc, jctx, outcome,
                   resultChan, errChan, shutdownVars, enqLog, deqLog, written,
                   queries>>

-----------------------------------------------------------------------------
\* Submitters. Each job j has its own submitter, which builds the job and
\* enters the enqueue select of ServeHTTP or of HandleRequest.

\* Submitter j has a call to make.
Pending(j) == spc[j] = "idle" /\ j <= njobs

\* The send case of the enqueue select can proceed and does not panic.
SendReady == ~closed /\ CanSend(jobQueue, queueSize)

\* "case h.jobQueue <- j:" completes: the job is in the buffer.
Enqueue(j) ==
    /\ jobQueue' = Append(jobQueue, j)
    /\ enqLog' = Append(enqLog, j)
    /\ spc' = [spc EXCEPT ![j] = "sent"]
    /\ UNCHANGED outcome

\* The call ends with outcome o without having enqueued the job.
GiveUp(j, o) ==
    /\ spc' = [spc EXCEPT ![j] = "done"]
    /\ outcome' = [outcome EXCEPT ![j] = o]
    /\ UNCHANGED <<jobQueue, enqLog>>

submitFrame == <<poolVars, wg, activeJobs, queuedJobs, workerVars, jctx,
                 resultChan, errChan, shutdownVars, deqLog, written, queries>>

\* ServeHTTP: extractPatientID(r) returned a key that is not "".
Validated(j) == patientID[j] # ""

\* ServeHTTP: "if patientID == "" { http.Error(..., 400); return }"
ServeHTTPBadRequest(j) ==
    /\ Pending(j)
    /\ ~Validated(j)
    /\ GiveUp(j, "http400")
    /\ UNCHANGED submitFrame

\* ServeHTTP, "select { case h.jobQueue <- j: ..." with room in the buffer
ServeHTTPEnqueue(j) ==
    /\ Pending(j)
    /\ Validated(j)
    /\ SendReady
    /\ Enqueue(j)
    /\ UNCHANGED submitFrame

\* ServeHTTP, "case <-r.Context().Done():" 408 request cancelled
ServeHTTPCancelled(j) ==
    /\ Pending(j)
    /\ Validated(j)
    /\ jctx[j]
    /\ GiveUp(j, "http408")
    /\ UNCHANGED submitFrame

\* ServeHTTP, "default:" taken only when no other case can proceed: 503
ServeHTTPReject(j) ==
    /\ Pending(j)
    /\ Validated(j)
    /\ ~closed
    /\ ~CanSend(jobQueue, queueSize)
    /\ ~jctx[j]
    /\ GiveUp(j, "http503")
    /\ UNCHANGED submitFrame

\* ServeHTTP: the send case is chosen on a closed channel, which panics
\* ("send on closed channel") in the goroutine serving the request.
ServeHTTPSendOnClosed(j) ==
    /\ Pending(j)
    /\ Validated(j)
    /\ closed
    /\ GiveUp(j, "panic")
    /\ UNCHANGED submitFrame

\* HandleRequest, the enqueue select when it is entered: the send proceeds at once
HandleRequestEnqueue(j) ==
    /\ Pending(j)
    /\ SendReady
    /\ Enqueue(j)
    /\ UNCHANGED submitFrame

\* HandleRequest: no case can proceed when the select is entered, it blocks
HandleRequestBlock(j) ==
    /\ Pending(j)
    /\ ~closed
    /\ ~CanSend(jobQueue, queueSize)
    /\ ~jctx[j]
    /\ spc' = [spc EXCEPT ![j] = "blocked"]
    /\ UNCHANGED <<jobQueue, enqLog, outcome, submitFrame>>

\* HandleRequest: a blocked send proceeds once the buffer has room
HandleRequestUnblock(j) ==
    /\ spc[j] = "blocked"
    /\ SendReady
    /\ Enqueue(j)
    /\ UNCHANGED submitFrame

\* HandleRequest, "case <-ctx.Done():" returns ctx.Err()
HandleRequestCancelled(j) ==
    /\ Pending(j) \/ spc[j] = "blocked"
    /\ jctx[j]
    /\ GiveUp(j, "ctxerr")
    /\ UNCHANGED submitFrame

\* HandleRequest, "case <-time.After(100 * time.Millisecond):" queue full
HandleRequestTimeout(j) ==
    /\ spc[j] = "blocked"
    /\ GiveUp(j, "queuefull")
    /\ UNCHANGED submitFrame

\* HandleRequest: the send case is chosen on a closed channel, which panics
\* in the caller's goroutine.
HandleRequestSendOnClosed(j) ==
    /\ Pending(j) \/ spc[j] = "blocked"
    /\ closed
    /\ GiveUp(j, "panic")
    /\ UNCHANGED submitFrame

\* After the send: atomic.AddInt64(&h.queuedJobs, 1)
IncQueued(j) ==
    /\ spc[j] = "sent"
    /\ queuedJobs' = queuedJobs + 1
    /\ spc' = [spc EXCEPT ![j] = "wait"]
    /\ UNCHANGED <<poolVars, jobQueue, wg, activeJobs, workerVars, jctx, outcome,
                   resultChan, errChan, shutdownVars, enqLog, deqLog, written,
                   queries>>

waitFrame == <<poolVars, jobQueue, wg, activeJobs, queuedJobs, workerVars, jctx,
               shutdownVars, enqLog, deqLog, written, queries>>

\* The wait select, "case response := <-j.resultChan:"
ReceiveResult(j) ==
    /\ spc[j] = "wait"
    /\ resultChan[j] # <<>>
    /\ resultChan' = [resultChan EXCEPT ![j] = Receive(@).rest]
    /\ outcome' = [outcome EXCEPT ![j] = "success"]
    /\ spc' = [spc EXCEPT ![j] = "done"]
    /\ UNCHANGED <<errChan, waitFrame>>

\* The wait select, "case err := <-j.errChan:"
ReceiveErr(j) ==
    /\ spc[j] = "wait"
    /\ errChan[j] # <<>>
    /\ errChan' = [errChan EXCEPT ![j] = Receive(@).rest]
    /\ outcome' = [outcome EXCEPT ![j] = Receive(errChan[j]).item]
    /\ spc' = [spc EXCEPT ![j] = "done"]
    /\ UNCHANGED <<resultChan, waitFrame>>

\* The wait select, "case <-r.Context().Done():" / "case <-ctx.Done():"
ReceiveCancelled(j) ==
    /\ spc[j] = "wait"
    /\ jctx[j]
    /\ outcome' = [outcome EXCEPT ![j] = "ctxdone"]
    /\ spc' = [spc EXCEPT ![j] = "done"]
    /\ UNCHANGED <<resultChan, errChan, waitFrame>>

\* The caller's context of job j is cancelled or its deadline passes.
CancelJob(j) ==
    /\ j <= njobs
    /\ spc[j] # "done"
    /\ ~jctx[j]
    /\ jctx' = [jctx EXCEPT ![j] = TRUE]
    /\ UNCHANGED <<poolVars, jobQueue, wg, activeJobs, queuedJobs, workerVars,
                   spc, outcome, resultChan, errChan, shutdownVars, enqLog,
                   deqLog, written, queries>>

-----------------------------------------------------------------------------
\* Shutdown

shutFrame == <<workers, queueSize, njobs, patientID, simVars, reuseVars, statVars, jobQueue, wg, activeJobs, queuedJobs,
               workerVars, spc, jctx, outcome, resultChan, errChan, enqLog,
               deqLog, written, queries>>

\* Jobs a worker has received and whose processJob has not returned.
MidFlight == {wjob[w] : w \in {x \in WorkerIds : wpc[x] \in {"count", "query", "deliver"}}}

\* Shutdown(ctx) is called, with a context that is already Done or not, and
\* runs close(h.jobQueue)
ShutdownClose ==
    /\ shpc = "idle"
    /\ closed' = TRUE
    /\ shpc' = "closed"
    /\ \E expired \in BOOLEAN :
          /\ shCtxDone' = expired
          /\ shCall' = [expired |-> expired, held |-> MidFlight]
    /\ UNCHANGED <<poolCtxDone, shResult, shutFrame>>

\* h.cancel(), then "go func() { h.wg.Wait(); close(workersDone) }()"
ShutdownCancel ==
    /\ shpc = "closed"
    /\ poolCtxDone' = TRUE
    /\ shpc' = "waiting"
    /\ UNCHANGED <<closed, shCtxDone, shResult, shCall, shutFrame>>

\* Variant: the wait is over while one worker is still running.
WaitReturnsEarly == wg <= 1

\* h.wg.Wait() returns, so that workersDone is closed
WaitReturns == wg = 0

\* "case <-workersDone: return nil"
ShutdownReturnOk ==
    /\ shpc = "waiting"
    /\ WaitReturns
    /\ shResult' = "ok"
    /\ shpc' = "done"
    /\ UNCHANGED <<closed, poolCtxDone, shCtxDone, shCall, shutFrame>>

\* Variant: the deadline case returns nil.
TimeoutResultNil == "ok"

\* What Shutdown returns from "case <-ctx.Done()": the timeout error.
TimeoutResult == "timeout"

\* The arguments fmt.Errorf formats into the timeout error's text,
\* "shutdown timeout: workers still processing": there are none.
TimeoutErrorArgs == <<>>

\* "case <-ctx.Done(): return fmt.Errorf("shutdown timeout: ...")"
ShutdownReturnTimeout ==
    /\ shpc = "waiting"
    /\ shCtxDone
    /\ shResult' = TimeoutResult
    /\ shpc' = "done"
    /\ UNCHANGED <<closed, poolCtxDone, shCtxDone, shCall, shutFrame>>

\* The context given to Shutdown is Done (read only by the select above).
ShutdownDeadline ==
    /\ shpc = "waiting"
    /\ ~shCtxDone
    /\ shCtxDone' = TRUE
    /\ UNCHANGED <<closed, poolCtxDone, shpc, shResult, shCall, shutFrame>>

-----------------------------------------------------------------------------
Worker(w) ==
    \/ WorkerExitCancelled(w)
    \/ WorkerExitClosed(w)
    \/ WorkerDequeue(w)
    \/ ProcessCount(w)
    \/ ProcessQuery(w)
    \/ ProcessDeliverErr(w)
    \/ ProcessDeliverResult(w)
    \/ ProcessDeliverAbandon(w)

ServeHTTP(j) ==
    \/ ServeHTTPEnqueue(j)
    \/ ServeHTTPCancelled(j)
    \/ ServeHTTPReject(j)
    \/ ServeHTTPSendOnClosed(j)

HandleRequest(j) ==
    \/ HandleRequestEnqueue(j)
    \/ HandleRequestBlock(j)
    \/ HandleRequestUnblock(j)
    \/ HandleRequestCancelled(j)
    \/ HandleRequestTimeout(j)
    \/ HandleRequestSendOnClosed(j)

AwaitResult(j) ==
    \/ IncQueued(j)
    \/ ReceiveResult(j)
    \/ ReceiveErr(j)
    \/ ReceiveCancelled(j)

Shutdown ==
    \/ ShutdownClose
    \/ ShutdownCancel
    \/ ShutdownReturnOk
    \/ ShutdownReturnTimeout
    \/ ShutdownDeadline

Next ==
    \/ \E w \in WorkerIds : Worker(w)
    \/ \E j \in Jobs : ServeHTTP(j)
    \/ \E j \in Jobs : HandleRequest(j)
    \/ \E j \in Jobs : AwaitResult(j)
    \/ \E j \in Jobs : CancelJob(j)
    \/ Shutdown

Spec == Init /\ [][Next]_vars

-----------------------------------------------------------------------------
\* The pool while Shutdown is never called: the same steps without Shutdown
\* and without what only a closed queue or a cancelled pool context enables.

RunningWorker(w) ==
    \/ WorkerDequeue(w)
    \/ ProcessCount(w)
    \/ ProcessQuery(w)
    \/ ProcessDeliverErr(w)
    \/ ProcessDeliverResult(w)
    \/ ProcessDeliverAbandon(w)

RunningSubmit(j) ==
    \/ ServeHTTPEnqueue(j)
    \/ ServeHTTPCancelled(j)
    \/ ServeHTTPReject(j)
    \/ HandleRequestEnqueue(j)
    \/ HandleRequestBlock(j)
    \/ HandleRequestUnblock(j)
    \/ HandleRequestCancelled(j)
    \/ HandleRequestTimeout(j)

NextRunning ==
    \/ \E w \in WorkerIds : RunningWorker(w)
    \/ \E j \in Jobs : RunningSubmit(j)
    \/ \E j \in Jobs : AwaitResult(j)
    \/ \E j \in Jobs : CancelJob(j)

\* The Go scheduler runs every goroutine that can take a step: each worker
\* and each submitter that has sent its job keeps being scheduled, and
\* QueryPatient always returns. Nothing is assumed of the callers' contexts
\* or of the arrival of new submissions.
LiveSpec ==
    /\ Init
    /\ [][NextRunning]_vars
    /\ \A w \in WorkerIds : WF_vars(RunningWorker(w))
    /\ \A j \in Jobs : WF_vars(AwaitResult(j))

-----------------------------------------------------------------------------
\* The running pool with submissions whose request key may be missing:
\* ServeHTTP validates the key before it builds the job, HandleRequest takes
\* the key it is given.

KeyInit ==
    /\ \E nw \in 1..MaxWorkers, q \in 1..MaxQueueSize : Constructed(nw, q, PoolJobs)
    /\ NoCall
    /\ NewOptimizedHandler
    /\ CollectorCreated
    /\ IdleCallers
    /\ NoLoadTest
    /\ OthersIdle
    /\ patientID \in [Jobs -> PatientIDs]
    /\ \A j \in Jobs : j > PoolJobs => patientID[j] = ValidID

KeyNext ==
    \/ \E j \in Jobs : ServeHTTPBadRequest(j)
    \/ \E w \in WorkerIds : RunningWorker(w)
    \/ \E j \in Jobs : RunningSubmit(j)
    \/ \E j \in Jobs : AwaitResult(j)
    \/ \E j \in Jobs : CancelJob(j)

KeySpec == KeyInit /\ [][KeyNext]_vars

-----------------------------------------------------------------------------
\* Properties of the worker pool

Range(seq) == {seq[i] : i \in 1..Len(seq)}
Occurrences(seq, x) == Cardinality({i \in 1..Len(seq) : seq[i] = x})
Spawned == {w \in WorkerIds : wpc[w] # "none"}
AllWorkersExited == \A w \in Spawned : wpc[w] = "exited"
HeldBy(j) == {w \in WorkerIds : wjob[w] = j}
\* processJob has been called for j and has returned.
Processed(j) == queries[j] >= 1 /\ HeldBy(j) = {}
\* Outcomes of a call that ended in its enqueue select.
RejectionOutcomes == {"http503", "http408", "queuefull", "ctxerr"}

\* C1 as stated: the queue never holds more than its capacity; a ServeHTTP
\* enqueue step taken on a full queue ends the call with 503, enqueues
\* nothing and does not block; taken on a queue with room, it is accepted.
C1_AsStated ==
    /\ [](Len(jobQueue) <= queueSize)
    /\ [][\A j \in Jobs : ServeHTTP(j) =>
            IF Len(jobQueue) = queueSize
            THEN /\ spc'[j] = "done"
                 /\ outcome'[j] = "http503"
                 /\ jobQueue' = jobQueue
            ELSE /\ spc'[j] = "sent"
                 /\ jobQueue' = Append(jobQueue, j)]_vars

\* C1 amended: the queue never holds more than its capacity; a ServeHTTP
\* enqueue step never blocks and on a full queue enqueues nothing; while the
\* queue is open, a request whose context is live gets 503 on a full queue and
\* is accepted when there is room, and a request whose context is Done on a
\* full queue gets 408.
C1_Backpressure ==
    /\ [](Len(jobQueue) <= queueSize)
    /\ [][\A j \in Jobs : ServeHTTP(j) =>
            /\ spc'[j] \in {"sent", "done"}
            /\ Len(jobQueue) = queueSize =>
                  /\ spc'[j] = "done"
                  /\ jobQueue' = jobQueue
            /\ (~closed /\ ~jctx[j]) =>
                  IF Len(jobQueue) = queueSize
                  THEN outcome'[j] = "http503"
                  ELSE spc'[j] = "sent" /\ jobQueue' = Append(jobQueue, j)
            /\ (~closed /\ jctx[j] /\ Len(jobQueue) = queueSize) =>
                  outcome'[j] = "http408"]_vars

\* C1 witness: a request was answered 503 and the queue is still full.
C1_Witness ==
    \E j \in Jobs : outcome[j] = "http503" /\ Len(jobQueue) = queueSize

\* C2 as stated: once Shutdown has closed the queue, a submitter that enters
\* or is waiting in its enqueue select is never accepted and its call ends
\* with a rejection outcome, never with a panic.
C2_RejectedAfterShutdown ==
    [][\A j \in Jobs :
          (closed /\ spc[j] \in {"idle", "blocked"} /\ spc'[j] # spc[j]) =>
              \/ spc'[j] = "blocked"
              \/ spc'[j] = "done" /\ outcome'[j] \in RejectionOutcomes]_vars

\* C3 as stated: when every worker has exited, no accepted job is left in
\* the queue, and every accepted job has had exactly one outcome written.
C3_DrainedWhenStopped ==
    AllWorkersExited =>
        /\ jobQueue = <<>>
        /\ \A j \in Range(enqLog) : j \in Range(deqLog) /\ written[j] = 1

\* C4: for every job at most one send on resultChan or errChan ever
\* completes, and the two channels never both hold a value.
C4_AtMostOneOutcome ==
    \A j \in Jobs :
        /\ written[j] <= 1
        /\ Len(resultChan[j]) + Len(errChan[j]) <= 1

\* C4 witness: a worker delivered an error for a job whose context is Done
\* and whose submitter has already returned on its own cancellation.
C4_Witness ==
    \E j \in Jobs :
        /\ written[j] = 1
        /\ jctx[j]
        /\ outcome[j] = "ctxdone"
        /\ errChan[j] # <<>>

\* C5: workers receive jobs in the order in which their sends completed:
\* the dequeue history is a prefix of the enqueue history.
C5_Fifo ==
    /\ Len(deqLog) <= Len(enqLog)
    /\ \A i \in 1..Len(deqLog) : deqLog[i] = enqLog[i]

\* C5 witness: two jobs were accepted in the order 2, 1 while both were in
\* the queue's history, and were dequeued in that order.
C5_Witness == enqLog = <<2, 1>> /\ deqLog = <<2, 1>>

\* C6: a job is received by at most one worker, held by at most one worker
\* and causes at most one QueryPatient call; a job whose call ended in the
\* enqueue select is never received nor queried.
C6_ExecutedAtMostOnce ==
    \A j \in Jobs :
        /\ Occurrences(deqLog, j) <= 1
        /\ Cardinality(HeldBy(j)) <= 1
        /\ queries[j] <= 1
        /\ (spc[j] = "done" /\ outcome[j] \in RejectionOutcomes \cup {"panic"}) =>
              /\ queries[j] = 0
              /\ j \notin Range(deqLog)
              /\ j \notin Range(jobQueue)

\* C6 witness: the source failed a job once, the job is finished, and
\* another call gave up because the queue was full.
C6_Witness ==
    \E j, k \in Jobs :
        /\ outcome[j] = "dberr" /\ queries[j] = 1 /\ Processed(j)
        /\ outcome[k] \in {"http503", "queuefull"}

\* C7: activeJobs as GetStats reports it is the number of workers between
\* the increment and the deferred decrement of processJob, each holding one
\* job of its own, and lies in 0..workers.
C7_ActiveBounded ==
    /\ GetStats[1] \in 0..workers
    /\ GetStats[1] = Cardinality({w \in WorkerIds : wpc[w] \in {"query", "deliver"}})
    /\ \A w \in WorkerIds : wpc[w] \in {"query", "deliver"} =>
          /\ wjob[w] \in Jobs
          /\ HeldBy(wjob[w]) = {w}

\* C7 witness: every worker of a two-worker pool is executing a job.
C7_Witness == workers = 2 /\ GetStats[1] = 2

\* C8 as stated: queuedJobs as GetStats reports it lies in 0..queueSize.
C8_QueuedBounded == GetStats[2] \in 0..GetStats[3]

\* C10: construction spawned exactly workers workers, and Shutdown has
\* returned nil only if every one of them has left its loop.
C10_OkOnlyWhenAllExited ==
    /\ Cardinality(Spawned) = workers
    /\ shResult = "ok" => AllWorkersExited

\* C10 witness: Shutdown returned nil on a pool of two workers, one of
\* which had been processing a job.
C10_Witness == shResult = "ok" /\ workers = 2 /\ deqLog # <<>>

\* C9 as stated: without Shutdown, every accepted job is eventually
\* processed by a worker with exactly one outcome written, and its
\* submitter's call returns.
C9_AsStated ==
    \A j \in Jobs :
        (j \in Range(enqLog)) ~>
            (Processed(j) /\ written[j] = 1 /\ spc[j] = "done")

\* C9 amended: without Shutdown, every accepted job is eventually processed
\* by a worker and its submitter's call returns; at most one outcome is
\* written for it, and exactly one if its context is not Done by then.
C9_Progress ==
    \A j \in Jobs :
        (j \in Range(enqLog)) ~>
            /\ Processed(j)
            /\ spc[j] = "done"
            /\ written[j] <= 1
            /\ ~jctx[j] => written[j] = 1

\* C9 witness: a job whose context was never cancelled has been processed,
\* its one outcome written and received by its submitter.
C9_Witness ==
    \E j \in Jobs :
        /\ Processed(j)
        /\ written[j] = 1
        /\ ~jctx[j]
        /\ spc[j] = "done"
        /\ outcome[j] = "success"

-----------------------------------------------------------------------------
\* Shutdown with a deadline, in-flight jobs, delivery and cancellation

\* C11 as stated: when Shutdown was called with a context already Done while
\* a job was mid-flight in a worker, it returns the timeout error, never nil.
C11_TimeoutWhenExpired ==
    (shCall.expired /\ shCall.held # {} /\ shpc = "done") => shResult = "timeout"

\* C11 amended: when Shutdown was called with a context already Done while a
\* job was mid-flight, it returns the timeout error whenever some worker has
\* not exited at the moment it returns (nil only if every worker has exited
\* by then), and its return leaves the workers, the queue and the submitters
\* as they are.
C11_TimeoutWhileRunning ==
    [][(shCall.expired /\ shCall.held # {} /\ shpc = "waiting" /\ shpc' = "done") =>
          /\ shResult' \in {"timeout", "ok"}
          /\ ~AllWorkersExited => shResult' = "timeout"
          /\ UNCHANGED <<workerVars, jobQueue, spc, wg>>]_vars

\* C11 witness: Shutdown, called with an elapsed deadline while a job was
\* mid-flight, has returned the timeout error and the job is still held.
C11_Witness ==
    /\ shCall.expired
    /\ shResult = "timeout"
    /\ \E j \in shCall.held : HeldBy(j) # {}

\* C12 as stated: the timeout error of Shutdown names a number of outstanding
\* workers or jobs, which is at least 1 when a job was mid-flight.
C12_TimeoutNamesOutstanding ==
    shResult = "timeout" =>
        /\ Len(TimeoutErrorArgs) >= 1
        /\ shCall.held # {} => TimeoutErrorArgs[1] >= 1

\* C13: a job that a worker held when Shutdown was called is not aborted by
\* the pool's cancellation: a worker exits only between jobs, the source
\* reports a cancellation only when the job's own context is Done, and once
\* processJob has returned for such a job whose own context is not Done, its
\* one outcome has been written.
C13_InFlightNotAborted ==
    /\ \A w \in WorkerIds : wpc[w] = "exited" => wjob[w] = NoJob
    /\ \A w \in WorkerIds :
          (wpc[w] = "deliver" /\ wres[w] = "cancelerr") => jctx[wjob[w]]
    /\ \A j \in shCall.held : (Processed(j) /\ ~jctx[j]) => written[j] = 1

\* C13 witness: a job held at the call of Shutdown was finished with its
\* outcome written, its context never Done, and every worker has then exited
\* on the pool's cancellation.
C13_Witness ==
    /\ poolCtxDone
    /\ AllWorkersExited
    /\ \E j \in shCall.held : Processed(j) /\ written[j] = 1 /\ ~jctx[j]

\* C14: a worker at the delivery step of processJob never blocks: the send on
\* the job's channel can always proceed, whatever the submitter is doing, and
\* the step takes the worker back to its loop.
C14_DeliveryNeverBlocks ==
    /\ [](\A w \in WorkerIds : wpc[w] = "deliver" =>
             IF wres[w] = "patient"
             THEN CanSend(resultChan[wjob[w]], ResultChanCap)
             ELSE CanSend(errChan[wjob[w]], ResultChanCap))
    /\ [][\A w \in WorkerIds :
             (wpc[w] = "deliver" /\ wpc'[w] # "deliver") => wpc'[w] = "loop"]_vars

\* C14 witness: a worker has delivered a record for a job whose submitter had
\* already returned on its cancelled context.
C14_Witness ==
    \E j \in Jobs :
        /\ outcome[j] = "ctxdone"
        /\ resultChan[j] # <<>>
        /\ Processed(j)

\* C16 as stated: a submitter whose context fired before its job completed
\* (so that the source returned the cancellation error) never ends with the
\* upstream-failure outcome built from the value of the error channel.
C16_CancellationNotUpstream ==
    \A j \in Jobs : outcome[j] # "cancelerr"

\* C17 as stated: a submission with an empty request key ends with the
\* validation failure on either entry point and its job is never placed in
\* the queue nor handed to a worker.
C17_EmptyKeyNeverQueued ==
    \A j \in Jobs : patientID[j] = "" =>
        /\ j \notin Range(enqLog)
        /\ HeldBy(j) = {}
        /\ spc[j] = "done" => outcome[j] = "http400"

-----------------------------------------------------------------------------
\* One call of Database.QueryPatient in time (simulator/database.go). Time is
\* counted in ticks from the instant the call enters its select.

\* Bounds: the largest configured latency, the latest instant at which the
\* caller's context fires, and ContextTimeout, in ticks.
MaxLatency == 3
MaxTick == 4
TimeoutTicks == 2

\* An instant no call waits for: the caller's context never fires.
Never == MaxTick + MaxLatency + 1

\* Every variable of the queue, the workers, the submitters and Shutdown.
queueVars == <<workers, queueSize, njobs, jobQueue, closed, poolCtxDone, wg,
               activeJobs, queuedJobs, wpc, wjob, wres, spc, jctx, outcome,
               resultChan, errChan, shpc, shCtxDone, shResult, shCall,
               patientID, enqLog, deqLog, written, queries>>

\* Every variable of the handlers.
handlerVars == <<queueVars, reuseVars, statVars>>

\* getRandomLatency: delta := max - min; min + rng.Int63n(delta). Int63n
\* panics when its argument is not positive: no latency is returned then.
getRandomLatency(min, max) ==
    IF max - min <= 0 THEN {} ELSE {min + r : r \in 0..(max - min - 1)}

\* The instant at which the context of the select is Done: that of the
\* caller's context when it has a deadline, and otherwise that of
\* context.WithTimeout(ctx, ContextTimeout).
DoneAt(hasDeadline, cancelAt) ==
    IF hasDeadline \/ cancelAt <= TimeoutTicks THEN cancelAt ELSE TimeoutTicks

\* ctx.Err() of that context once it is Done.
CtxErr(hasDeadline, cancelAt, err) ==
    IF hasDeadline \/ cancelAt <= TimeoutTicks THEN err ELSE "deadline exceeded"

\* The inputs of a call: the configured latency range, whether
\* shouldSimulateError will say yes, and the caller's context.
QueryInputs ==
    {[min |-> mn, max |-> mx, fail |-> f, hasDeadline |-> d, cancelAt |-> c, err |-> e] :
        mn \in 0..MaxLatency, mx \in 0..MaxLatency, f \in BOOLEAN, d \in BOOLEAN,
        c \in 0..MaxTick \cup {Never}, e \in {"canceled", "deadline exceeded"}}

\* NewDatabase accepts the range, and a context that never fires has no error.
AcceptedInput(in) ==
    /\ in.min <= in.max
    /\ in.cancelAt = Never => (in.err = "canceled" /\ ~in.hasDeadline)

\* QueryPatient is entered and latency := db.getRandomLatency() returns.
QueryCall ==
    /\ qpc = "idle"
    /\ \E in \in QueryInputs :
          /\ AcceptedInput(in)
          /\ qin' = in
          /\ \E lat \in getRandomLatency(in.min, in.max) : qlatency' = lat
    /\ qpc' = "select"
    /\ UNCHANGED <<qnow, qresult, handlerVars>>

\* QueryPatient is entered and db.getRandomLatency() panics.
QueryPanics ==
    /\ qpc = "idle"
    /\ \E in \in QueryInputs :
          /\ AcceptedInput(in)
          /\ getRandomLatency(in.min, in.max) = {}
          /\ qin' = in
    /\ qpc' = "done"
    /\ qresult' = [kind |-> "panic", wraps |-> "none"]
    /\ UNCHANGED <<qlatency, qnow, handlerVars>>

\* "case <-time.After(latency):" can proceed.
TimerReady == qnow >= qlatency

\* Variant: a select that does not look at the context.
CtxNeverReady == FALSE

\* "case <-ctx.Done():" can proceed.
CtxReady == qnow >= DoneAt(qin.hasDeadline, qin.cancelAt)

\* The select blocks while neither case can proceed.
QueryTick ==
    /\ qpc = "select"
    /\ ~TimerReady
    /\ ~CtxReady
    /\ qnow' = qnow + 1
    /\ UNCHANGED <<qpc, qin, qlatency, qresult, handlerVars>>

\* The delay has elapsed: a simulated database error, or the generated record.
QueryTimerFires ==
    /\ qpc = "select"
    /\ TimerReady
    /\ qresult' = [kind |-> IF qin.fail THEN "dberr" ELSE "patient", wraps |-> "none"]
    /\ qpc' = "done"
    /\ UNCHANGED <<qin, qlatency, qnow, handlerVars>>

\* The context is Done: fmt.Errorf("query cancelled: %w", ctx.Err())
QueryCtxDone ==
    /\ qpc = "select"
    /\ CtxReady
    /\ qresult' = [kind |-> "cancelerr",
                   wraps |-> CtxErr(qin.hasDeadline, qin.cancelAt, qin.err)]
    /\ qpc' = "done"
    /\ UNCHANGED <<qin, qlatency, qnow, handlerVars>>

QueryInit ==
    /\ Constructed(1, 1, 0)
    /\ KeysPresent
    /\ NoCall
    /\ NewOptimizedHandler
    /\ CollectorCreated
    /\ IdleCallers
    /\ NoLoadTest
    /\ OthersIdle

QueryNext ==
    \/ QueryCall
    \/ QueryPanics
    \/ QueryTick
    \/ QueryTimerFires
    \/ QueryCtxDone

QuerySpec == QueryInit /\ [][QueryNext]_vars

\* C15: when the context given to QueryPatient fires before the simulated
\* delay has elapsed, the call stops waiting at that instant and returns the
\* cancellation error wrapping the context's error, never a record and never
\* the simulated database failure.
C15_CancelledBeforeDelay ==
    (qpc = "done" /\ qresult.kind # "panic"
        /\ DoneAt(qin.hasDeadline, qin.cancelAt) < qlatency) =>
            /\ qresult.kind = "cancelerr"
            /\ qresult.wraps = CtxErr(qin.hasDeadline, qin.cancelAt, qin.err)
            /\ qnow = DoneAt(qin.hasDeadline, qin.cancelAt)

\* C15 witness: the caller cancelled a waiting call, which would otherwise
\* have drawn the simulated failure, and the call returned the cancellation.
C15_Witness ==
    /\ qpc = "done"
    /\ qin.fail
    /\ qin.err = "canceled"
    /\ 0 < qin.cancelAt /\ qin.cancelAt < qlatency
    /\ qresult = [kind |-> "cancelerr", wraps |-> "canceled"]

-----------------------------------------------------------------------------
\* Container reuse of OptimizedHandler (sync.Pool of *models.PatientResponse).
\* Each optimized job is processed by the worker that dequeued it; the queue
\* in front of the workers is the one modelled above.

\* Variant: a reset that clears what putResponse clears and nothing more.
ResetSensitiveOnly(r) == [r EXCEPT !.Patient = 0, !.Error = 0]

\* getResponse: the five assignments that reset the container.
ResetResponse(r) ==
    [r EXCEPT !.Success = FALSE, !.Patient = 0, !.Error = 0, !.Timestamp = 0,
              !.RequestID = 0]

\* putResponse: resp.Patient = nil; resp.Error = ""
ClearSensitive(r) == [r EXCEPT !.Patient = 0, !.Error = 0]

\* GetPoolStats: hits, misses and the rate float64(hits) / float64(total) * 100,
\* kept as numerator and denominator (0 over 1 when total is 0).
GetPoolStats ==
    <<poolHits, poolMisses,
      IF poolHits + poolMisses > 0
      THEN <<poolHits * 100, poolHits + poolMisses>> ELSE <<0, 1>> >>

reuseFrame == <<queueVars, simVars, statVars>>

\* getResponse, responsePool.Get() returns an idle container c
GetResponseReuse(j) ==
    /\ opc[j] = "start"
    /\ \E c \in responsePool :
          /\ responsePool' = responsePool \ {c}
          /\ resp' = [resp EXCEPT ![c] = ResetResponse(@)]
          /\ oresp' = [oresp EXCEPT ![j] = c]
          /\ handed' = [handed EXCEPT ![c] = @ + 1]
    /\ poolHits' = poolHits + 1
    /\ acquires' = acquires + 1
    /\ reuses' = reuses + 1
    /\ opc' = [opc EXCEPT ![j] = "query"]
    /\ UNCHANGED <<nextResp, poolMisses, octx, ochan, osub, ocaller, released,
                   osettled, reuseFrame>>

\* getResponse, responsePool.Get() finds nothing to hand out (the pool is
\* empty, or sync.Pool has dropped or does not see its idle containers) and
\* calls New, which counts a miss; getResponse then counts a hit as well
GetResponseNew(j) ==
    /\ opc[j] = "start"
    /\ nextResp < ReuseJobs
    /\ nextResp' = nextResp + 1
    /\ poolMisses' = poolMisses + 1
    /\ poolHits' = poolHits + 1
    /\ resp' = [resp EXCEPT ![nextResp + 1] = ResetResponse(EmptyResponse)]
    /\ oresp' = [oresp EXCEPT ![j] = nextResp + 1]
    /\ handed' = [handed EXCEPT ![nextResp + 1] = @ + 1]
    /\ acquires' = acquires + 1
    /\ opc' = [opc EXCEPT ![j] = "query"]
    /\ UNCHANGED <<responsePool, octx, ochan, osub, ocaller, reuses, released,
                   osettled, reuseFrame>>

\* The request key of optimized job j: every job asks for its own patient.
OptKey(j) == j

\* Variant: the source returns the record of one fixed patient.
GeneratePatientFixed(id) == Len(<<id>>)

\* models.GeneratePatient(id): a record whose ID field is id; the record is
\* named by that field, its other fields are random.
GeneratePatient(id) == id

\* processJob: QueryPatient(j.ctx, ...), response.Timestamp = time.Now(), and
\* the population of the container for an error or for a record
PopulateResponse(j) ==
    /\ opc[j] = "query"
    /\ \E r \in QueryPatient(octx[j]) :
          IF r = "patient"
          THEN /\ resp' = [resp EXCEPT ![oresp[j]] =
                              [@ EXCEPT !.Timestamp = j, !.Success = TRUE,
                                          !.Patient = GeneratePatient(OptKey(j))]]
               /\ opc' = [opc EXCEPT ![j] = "deliverOk"]
          ELSE /\ resp' = [resp EXCEPT ![oresp[j]] =
                              [@ EXCEPT !.Timestamp = j, !.Success = FALSE, !.Error = j]]
               /\ opc' = [opc EXCEPT ![j] = "deliverErr"]
    /\ UNCHANGED <<responsePool, nextResp, poolHits, poolMisses, oresp, octx,
                   ochan, osub, ocaller, acquires, reuses, handed, released,
                   osettled, reuseFrame>>

\* putResponse by the worker that holds the container of job j
WorkerPutResponse(j) ==
    /\ resp' = [resp EXCEPT ![oresp[j]] = ClearSensitive(@)]
    /\ responsePool' = responsePool \cup {oresp[j]}
    /\ released' = [released EXCEPT ![oresp[j]] = @ + 1]
    /\ osettled' = [osettled EXCEPT ![j] = TRUE]
    /\ oresp' = [oresp EXCEPT ![j] = NoResp]
    /\ opc' = [opc EXCEPT ![j] = "returned"]

\* err != nil: "case j.errChan <- err:", then h.putResponse(response)
OptDeliverErr(j) ==
    /\ opc[j] = "deliverErr"
    /\ ~ochan[j].err
    /\ ochan' = [ochan EXCEPT ![j].err = TRUE]
    /\ WorkerPutResponse(j)
    /\ UNCHANGED <<nextResp, poolHits, poolMisses, octx, osub, ocaller,
                   acquires, reuses, handed, reuseFrame>>

\* err != nil: "case <-j.ctx.Done():", then h.putResponse(response)
OptAbandonErr(j) ==
    /\ opc[j] = "deliverErr"
    /\ octx[j]
    /\ WorkerPutResponse(j)
    /\ UNCHANGED <<nextResp, poolHits, poolMisses, octx, ochan, osub, ocaller,
                   acquires, reuses, handed, reuseFrame>>

\* Variant: the worker also puts the response back after sending it.
PoolAfterSendPut(pool, c) == pool \cup {c}

\* The idle set once the worker has sent container c to the submitter:
\* "We don't return the response to the pool here".
PoolAfterSend(pool, c) == pool

\* "case j.resultChan <- response:": the container goes to the submitter
OptDeliverResult(j) ==
    /\ opc[j] = "deliverOk"
    /\ ochan[j].resp = NoResp
    /\ ochan' = [ochan EXCEPT ![j].resp = oresp[j]]
    /\ responsePool' = PoolAfterSend(responsePool, oresp[j])
    /\ oresp' = [oresp EXCEPT ![j] = NoResp]
    /\ opc' = [opc EXCEPT ![j] = "returned"]
    /\ UNCHANGED <<resp, nextResp, poolHits, poolMisses, octx, osub, ocaller,
                   acquires, reuses, handed, released, osettled, reuseFrame>>

\* "case <-j.ctx.Done(): // Caller no longer waiting": processJob returns
\* and the container is neither sent nor put back
OptAbandonResult(j) ==
    /\ opc[j] = "deliverOk"
    /\ octx[j]
    /\ oresp' = [oresp EXCEPT ![j] = NoResp]
    /\ opc' = [opc EXCEPT ![j] = "returned"]
    /\ UNCHANGED <<responsePool, resp, nextResp, poolHits, poolMisses, octx,
                   ochan, osub, ocaller, acquires, reuses, handed, released,
                   osettled, reuseFrame>>

\* OptimizedHandler.ServeHTTP: "case response := <-j.resultChan:", the
\* submitter holds the response while it encodes it
OptServeHTTPResult(j) ==
    /\ osub[j] = "wait"
    /\ ochan[j].resp # NoResp
    /\ ocaller' = [ocaller EXCEPT ![j] = ochan[j].resp]
    /\ ochan' = [ochan EXCEPT ![j].resp = NoResp]
    /\ osettled' = [osettled EXCEPT ![j] = TRUE]
    /\ osub' = [osub EXCEPT ![j] = "encode"]
    /\ UNCHANGED <<responsePool, resp, nextResp, poolHits, poolMisses, opc,
                   oresp, octx, acquires, reuses, handed, released, reuseFrame>>

\* OptimizedHandler.ServeHTTP: after the encoding, h.putResponse(response)
OptServeHTTPPut(j) ==
    /\ osub[j] = "encode"
    /\ resp' = [resp EXCEPT ![ocaller[j]] = ClearSensitive(@)]
    /\ responsePool' = responsePool \cup {ocaller[j]}
    /\ released' = [released EXCEPT ![ocaller[j]] = @ + 1]
    /\ ocaller' = [ocaller EXCEPT ![j] = NoResp]
    /\ osub' = [osub EXCEPT ![j] = "done"]
    /\ UNCHANGED <<nextResp, poolHits, poolMisses, opc, oresp, octx, ochan,
                   acquires, reuses, handed, osettled, reuseFrame>>

\* OptimizedHandler.HandleRequest: "case response := <-j.resultChan:
\* return response, nil", the caller keeps the container
OptHandleRequestResult(j) ==
    /\ osub[j] = "wait"
    /\ ochan[j].resp # NoResp
    /\ ocaller' = [ocaller EXCEPT ![j] = ochan[j].resp]
    /\ ochan' = [ochan EXCEPT ![j].resp = NoResp]
    /\ osettled' = [osettled EXCEPT ![j] = TRUE]
    /\ osub' = [osub EXCEPT ![j] = "done"]
    /\ UNCHANGED <<responsePool, resp, nextResp, poolHits, poolMisses, opc,
                   oresp, octx, acquires, reuses, handed, released, reuseFrame>>

\* Either entry point: "case err := <-j.errChan:"
OptReceiveErr(j) ==
    /\ osub[j] = "wait"
    /\ ochan[j].err
    /\ ochan' = [ochan EXCEPT ![j].err = FALSE]
    /\ osub' = [osub EXCEPT ![j] = "done"]
    /\ UNCHANGED <<responsePool, resp, nextResp, poolHits, poolMisses, opc,
                   oresp, octx, ocaller, acquires, reuses, handed, released,
                   osettled, reuseFrame>>

\* Either entry point: the context's Done case of the wait select
OptReceiveCancelled(j) ==
    /\ osub[j] = "wait"
    /\ octx[j]
    /\ osub' = [osub EXCEPT ![j] = "done"]
    /\ UNCHANGED <<responsePool, resp, nextResp, poolHits, poolMisses, opc,
                   oresp, octx, ochan, ocaller, acquires, reuses, handed,
                   released, osettled, reuseFrame>>

\* The caller's context of optimized job j is cancelled.
OptCancelJob(j) ==
    /\ osub[j] = "wait"
    /\ ~octx[j]
    /\ octx' = [octx EXCEPT ![j] = TRUE]
    /\ UNCHANGED <<responsePool, resp, nextResp, poolHits, poolMisses, opc,
                   oresp, ochan, osub, ocaller, acquires, reuses, handed,
                   released, osettled, reuseFrame>>

OptProcessJob(j) ==
    \/ GetResponseReuse(j)
    \/ GetResponseNew(j)
    \/ PopulateResponse(j)
    \/ OptDeliverErr(j)
    \/ OptAbandonErr(j)
    \/ OptDeliverResult(j)
    \/ OptAbandonResult(j)

OptAwaitResult(j) ==
    \/ OptServeHTTPResult(j)
    \/ OptServeHTTPPut(j)
    \/ OptHandleRequestResult(j)
    \/ OptReceiveErr(j)
    \/ OptReceiveCancelled(j)

ReuseInit ==
    /\ Constructed(1, 1, 0)
    /\ KeysPresent
    /\ NoCall
    /\ NewOptimizedHandler
    /\ CollectorCreated
    /\ IdleCallers
    /\ NoLoadTest
    /\ OthersIdle

ReuseNext ==
    \/ \E j \in OptJobs : OptProcessJob(j)
    \/ \E j \in OptJobs : OptAwaitResult(j)
    \/ \E j \in OptJobs : OptCancelJob(j)

ReuseSpec == ReuseInit /\ [][ReuseNext]_vars

\* C18 as stated: hits plus misses is the number of acquires, and hits is the
\* number of acquires that reused an idle container.
C18_HitsPlusMissesAreAcquires ==
    /\ GetPoolStats[1] + GetPoolStats[2] = acquires
    /\ GetPoolStats[1] = reuses

\* C19: the container a worker has just acquired with getResponse has every
\* field at its empty value, whatever it held when it was released.
C19_AcquiredIsEmpty ==
    \A j \in OptJobs : opc[j] = "query" => resp[oresp[j]] = EmptyResponse

\* C19 witness: a container released with the success flag and the timestamp
\* of its previous job has been acquired again for another job.
C19_Witness ==
    \E j \in OptJobs :
        /\ opc[j] = "query"
        /\ reuses = 1
        /\ \E k \in OptJobs \ {j} : osub[k] = "done" /\ ocaller[k] = NoResp
                                      /\ opc[k] = "returned" /\ ~octx[k]
                                      /\ ~ochan[k].err /\ nextResp = 1

\* C20 as stated: every idle container of the pool has every field at its
\* empty value.
C20_IdleIsEmpty ==
    \A c \in responsePool : resp[c] = EmptyResponse

\* The number of owners of container c: the idle set, the workers that hold
\* it, the result channels it is in transit on, the submitters that hold it.
Owners(c) ==
    Cardinality({x \in {"idle"} : c \in responsePool})
    + Cardinality({j \in OptJobs : oresp[j] = c})
    + Cardinality({j \in OptJobs : ochan[j].resp = c})
    + Cardinality({j \in OptJobs : ocaller[j] = c})

\* C21: every container has at most one owner (the idle set, one worker, or
\* one submitter, counting a container in transit on a result channel as its
\* submitter's), and it is never put back more often than it was acquired:
\* an idle container has as many releases as acquires.
C21_OneOwner ==
    \A c \in Containers :
        /\ Owners(c) <= 1
        /\ released[c] <= handed[c]
        /\ c \in responsePool => released[c] = handed[c]

\* C21 witness: a container that a submitter released after use is held by
\* the worker of another job, its second acquire.
C21_Witness ==
    \E c \in Containers, j \in OptJobs :
        oresp[j] = c /\ handed[c] = 2 /\ released[c] = 1

\* C22 as stated: once processJob has returned for a job and its submitter's
\* call has returned, the container acquired for the job was put back to the
\* pool or received by the job's submitter.
C22_NoContainerLost ==
    \A j \in OptJobs :
        (opc[j] = "returned" /\ osub[j] = "done") => osettled[j]

\* C23: the response a submitter holds carries the record generated for its
\* own request key, no error text, and no timestamp or correlation id of
\* another request.
C23_OwnPayload ==
    \A j \in OptJobs :
        ocaller[j] # NoResp =>
            /\ resp[ocaller[j]].Success
            /\ resp[ocaller[j]].Patient = OptKey(j)
            /\ resp[ocaller[j]].Timestamp = j
            /\ resp[ocaller[j]].Error = EmptyResponse.Error
            /\ resp[ocaller[j]].RequestID = EmptyResponse.RequestID

\* C23 witness: a submitter holds its own record in a container that carried
\* the record of another request before.
C23_Witness ==
    \E j \in OptJobs :
        /\ ocaller[j] # NoResp
        /\ handed[ocaller[j]] = 2
        /\ resp[ocaller[j]].Patient = OptKey(j)

-----------------------------------------------------------------------------
\* The metrics Collector (package metrics).
\* Durations and times are counted in milliseconds. A float64 result other
\* than percentile's rank is held as the ratio it rounds, in lowest terms.

\* time.Millisecond and time.Second in that unit
Millisecond == 1
Second == 1000 * Millisecond

\* The latencies given to RecordRequest
Latencies == {Millisecond, 2 * Millisecond}

collectorFrame == <<queueVars, simVars, reuseVars, loadVars, otherVars>>

RECURSIVE GCD(_, _)
GCD(a, b) == IF b = 0 THEN a ELSE GCD(b, a % b)

\* a / b as a float64 result, b > 0
Ratio(a, b) == <<a \div GCD(a, b), b \div GCD(a, b)>>

\* x <= y for two such results
RatioLeq(x, y) == x[1] * y[2] <= y[1] * x[2]

\* The zero value of a float64 field
ZeroFloat == Ratio(0, 1)

\* toMs: float64(d) / float64(time.Millisecond)
toMs(d) == Ratio(d, Millisecond)

\* Duration.Seconds()
Seconds(d) == Ratio(d, Second)

\* float64's significand has 53 digits.
MantBits == 53

\* Long numbers are held as binary digit sequences, most significant first,
\* and computed with in limbs of 16 digits.
Base == 2^16

\* The natural number a short digit sequence stands for
RECURSIVE BitsValue(_)
BitsValue(b) ==
    IF b = <<>> THEN 0 ELSE 2 * BitsValue(SubSeq(b, 1, Len(b) - 1)) + b[Len(b)]

\* The digit sequence without its leading zeros
StripZeros(b) ==
    IF \A i \in 1..Len(b) : b[i] = 0 THEN <<>>
    ELSE LET f == CHOOSE i \in 1..Len(b) : b[i] = 1 /\ \A j \in 1..(i - 1) : b[j] = 0
         IN  SubSeq(b, f, Len(b))

\* The digits of a limb sequence
ToBits(ls) ==
    [i \in 1..(16 * Len(ls)) |->
        (ls[((i - 1) \div 16) + 1] \div 2^(15 - ((i - 1) % 16))) % 2]

\* The limbs of a digit sequence
ToLimbs(b) ==
    LET n   == (Len(b) + 15) \div 16
        pad == 16 * n - Len(b)
    IN  [j \in 1..n |->
            BitsValue([i \in 1..16 |->
                IF 16 * (j - 1) + i <= pad THEN 0 ELSE b[16 * (j - 1) + i - pad]])]

\* The binary digits of a natural number below Base, most significant first
Bits(k) == StripZeros(ToBits(<<k>>))

\* Long division of a limb sequence by a small natural d, from the most
\* significant limb: quotient limbs q and remainder r
RECURSIVE LongDiv(_, _, _, _)
LongDiv(ls, d, r, q) ==
    IF ls = <<>> THEN [q |-> q, r |-> r]
    ELSE LET x == r * Base + ls[1]
         IN  LongDiv(Tail(ls), d, x % d, q \o <<x \div d>>)

\* ls * k + carry on limb sequences for a small natural k, from the least
\* significant limb, with the limbs found so far in acc
RECURSIVE MulLimbs(_, _, _, _)
MulLimbs(ls, k, carry, acc) ==
    IF ls = <<>> THEN <<carry>> \o acc
    ELSE LET x == ls[Len(ls)] * k + carry
         IN  MulLimbs(SubSeq(ls, 1, Len(ls) - 1), k, x \div Base, <<x % Base>> \o acc)

\* b + 1 on digit sequences
IncBits(b) ==
    IF \A i \in 1..Len(b) : b[i] = 1 THEN <<1>> \o [i \in 1..Len(b) |-> 0]
    ELSE LET z == CHOOSE i \in 1..Len(b) : b[i] = 0 /\ \A j \in (i + 1)..Len(b) : b[j] = 1
         IN  [i \in 1..Len(b) |-> IF i < z THEN b[i] ELSE IF i = z THEN 1 ELSE 0]

\* IEEE 754 round to nearest, ties to even, of a digit sequence with a leading
\* one to MantBits digits; sticky tells that digits beyond the sequence are
\* not all zero. e is the number of digits dropped.
RoundNearestEven(b, sticky) ==
    IF Len(b) <= MantBits THEN [m |-> b, e |-> 0]
    ELSE LET keep == SubSeq(b, 1, MantBits)
             rest == sticky \/ \E i \in (MantBits + 2)..Len(b) : b[i] = 1
             up   == b[MantBits + 1] = 1 /\ (rest \/ keep[MantBits] = 1)
             m    == IF up THEN IncBits(keep) ELSE keep
         IN  IF Len(m) > MantBits
             THEN [m |-> SubSeq(m, 1, MantBits), e |-> Len(b) - MantBits + 1]
             ELSE [m |-> m, e |-> Len(b) - MantBits]

\* float64(k) for a natural k below Base: the value BitsValue(m) * 2^e, exact
Float64(k) == [m |-> Bits(k), e |-> 0]

\* x / y in float64, for x and y holding naturals below Base exactly: 64
\* digits of the quotient beyond the point, rounded
FloatDiv(x, y) ==
    IF x.m = <<>> THEN x
    ELSE LET d == LongDiv(<<BitsValue(x.m), 0, 0, 0, 0>>, BitsValue(y.m), 0, <<>>)
             r == RoundNearestEven(StripZeros(ToBits(d.q)), d.r # 0)
         IN  [m |-> r.m, e |-> r.e - 64]

\* x * y in float64, for y holding a natural below Base exactly
FloatMul(x, y) ==
    IF x.m = <<>> \/ y.m = <<>> THEN [m |-> <<>>, e |-> 0]
    ELSE LET p == MulLimbs(ToLimbs(x.m), BitsValue(y.m), 0, <<>>)
             r == RoundNearestEven(StripZeros(ToBits(p)), FALSE)
         IN  [m |-> r.m, e |-> x.e + r.e]

\* int(x) for a non-negative float64 below 2^31: truncation
FloatToInt(x) ==
    IF x.e >= 0 THEN BitsValue(x.m \o [i \in 1..x.e |-> 0])
    ELSE IF Len(x.m) + x.e <= 0 THEN 0
         ELSE BitsValue(SubSeq(x.m, 1, Len(x.m) + x.e))

\* percentile: rank := int(float64(p) / 100.0 * float64(n))
rank(p, n) == FloatToInt(FloatMul(FloatDiv(Float64(p), Float64(100)), Float64(n)))

\* percentile(sorted, p), on a list indexed from 1
percentile(sorted, p) ==
    IF Len(sorted) = 0 THEN 0
    ELSE LET n == Len(sorted)
             r == rank(p, n)
         IN  IF r >= n THEN sorted[(n - 1) + 1] ELSE sorted[r + 1]

\* Variant: the copy is not sorted.
UnsortedCopy(l) == l

\* GetStats: latenciesCopy after copy(...) and sort.Slice with "<"
SortedCopy(l) == SortSeq(l, LAMBDA x, y : x < y)

RECURSIVE Sum(_)
Sum(l) == IF l = <<>> THEN 0 ELSE l[1] + Sum(Tail(l))

\* Variant: the end of the period is always the moment of the snapshot.
EndOfPeriodNow(c, t) == t

\* GetStats: endTime := c.endTime; if endTime.IsZero() { endTime = time.Now() }
EndOfPeriod(c, t) == IF c.endTime = ZeroTime THEN t ELSE c.endTime

\* Collector.GetStats at time t. Samples is not a field of Stats: it is the
\* number of latencies the snapshot was computed from.
CollectorGetStats(c, t) ==
    LET duration == EndOfPeriod(c, t) - c.startTime
        copy     == SortedCopy(c.latencies)
        n        == Len(copy)
    IN  [Taken            |-> TRUE,
         TotalRequests    |-> c.totalRequests,
         SuccessRequests  |-> c.successRequests,
         ErrorRequests    |-> c.errorRequests,
         RejectedRequests |-> c.rejectedRequests,
         ErrorRate        |-> IF c.totalRequests > 0
                              THEN Ratio(c.errorRequests * 100, c.totalRequests)
                              ELSE ZeroFloat,
         RejectionRate    |-> IF c.totalRequests > 0
                              THEN Ratio(c.rejectedRequests * 100, c.totalRequests)
                              ELSE ZeroFloat,
         Duration         |-> Seconds(duration),
         RequestsPerSec   |-> IF duration > 0
                              THEN Ratio(c.totalRequests * Second, duration)
                              ELSE ZeroFloat,
         MinLatency       |-> IF n > 0 THEN toMs(copy[1]) ELSE ZeroFloat,
         MaxLatency       |-> IF n > 0 THEN toMs(copy[n]) ELSE ZeroFloat,
         MeanLatency      |-> IF n > 0 THEN toMs(Sum(copy) \div n) ELSE ZeroFloat,
         MedianLatency    |-> IF n > 0 THEN toMs(percentile(copy, 50)) ELSE ZeroFloat,
         P95Latency       |-> IF n > 0 THEN toMs(percentile(copy, 95)) ELSE ZeroFloat,
         P99Latency       |-> IF n > 0 THEN toMs(percentile(copy, 99)) ELSE ZeroFloat,
         Samples          |-> n]

\* Collector.RecordRequest(latency, success)
RecordRequest(c, latency, success) ==
    [c EXCEPT !.totalRequests = @ + 1,
              !.successRequests = IF success THEN @ + 1 ELSE @,
              !.errorRequests = IF success THEN @ ELSE @ + 1,
              !.latencies = Append(@, latency)]

\* Collector.RecordRejection()
RecordRejection(c) ==
    [c EXCEPT !.totalRequests = @ + 1, !.rejectedRequests = @ + 1]

\* Collector.Stop(): c.endTime = time.Now()
Stop(c, t) == [c EXCEPT !.endTime = t]

\* Collector.Reset()
Reset(c, t) == NewCollector(t)

\* The clock advances.
Tick ==
    /\ now < MaxClock
    /\ now' = now + 1
    /\ UNCHANGED <<col, lastStats, prevStats, firstRecord, frozen, pcall,
                   lockVars, collectorFrame>>

\* A mutating call forgets the snapshots taken before it.
Mutated ==
    /\ lastStats' = NoStats
    /\ prevStats' = NoStats

CallRecordRequest ==
    /\ col.totalRequests < MaxRecords
    /\ \E latency \in Latencies, success \in BOOLEAN :
          col' = RecordRequest(col, latency, success)
    /\ firstRecord' = IF firstRecord = ZeroTime THEN now ELSE firstRecord
    /\ Mutated
    /\ UNCHANGED <<now, frozen, pcall, lockVars, collectorFrame>>

CallRecordRejection ==
    /\ col.totalRequests < MaxRecords
    /\ col' = RecordRejection(col)
    /\ firstRecord' = IF firstRecord = ZeroTime THEN now ELSE firstRecord
    /\ Mutated
    /\ UNCHANGED <<now, frozen, pcall, lockVars, collectorFrame>>

CallStop ==
    /\ col' = Stop(col, now)
    /\ Mutated
    /\ UNCHANGED <<now, firstRecord, frozen, pcall, lockVars, collectorFrame>>

CallReset ==
    /\ col' = Reset(col, now)
    /\ firstRecord' = ZeroTime
    /\ frozen' = {}
    /\ Mutated
    /\ UNCHANGED <<now, pcall, lockVars, collectorFrame>>

\* GetStats; frozen collects the durations reported since the first Stop.
CallGetStats ==
    /\ prevStats' = lastStats
    /\ lastStats' = CollectorGetStats(col, now)
    /\ frozen' = IF col.endTime # ZeroTime
                 THEN frozen \cup {lastStats'.Duration} ELSE frozen
    /\ UNCHANGED <<col, now, firstRecord, pcall, lockVars, collectorFrame>>

MetricsNext ==
    \/ Tick
    \/ CallRecordRequest
    \/ CallRecordRejection
    \/ CallStop
    \/ CallReset
    \/ CallGetStats

MetricsInit ==
    /\ Constructed(1, 1, 0)
    /\ KeysPresent
    /\ NoCall
    /\ NewOptimizedHandler
    /\ CollectorCreated
    /\ IdleCallers
    /\ NoLoadTest
    /\ OthersIdle

MetricsSpec == MetricsInit /\ [][MetricsNext]_vars

\* The lists percentile and GetStats are applied to: every list of at most
\* three latencies, and the descending lists n, ..., 1 up to MaxSamples.
SampleLists ==
    UNION {[1..n -> Latencies] : n \in 0..3}
    \cup {[i \in 1..n |-> (n + 1 - i) * Millisecond] : n \in 1..MaxSamples}

\* A Collector that recorded the latencies l, all of successful requests
Recorded(l) ==
    [NewCollector(ZeroTime + 1) EXCEPT !.totalRequests = Len(l),
                                       !.successRequests = Len(l),
                                       !.latencies = l]

PctInit ==
    /\ Constructed(1, 1, 0)
    /\ KeysPresent
    /\ NoCall
    /\ NewOptimizedHandler
    /\ IdleCallers
    /\ NoLoadTest
    /\ OthersIdle
    /\ now = ZeroTime + 1
    /\ \E l \in SampleLists : col = Recorded(l)
    /\ lastStats = NoStats
    /\ prevStats = NoStats
    /\ firstRecord = now
    /\ frozen = {}
    /\ pcall = NoPercentile

\* One call percentile(sorted, p) on the sorted copy of the latencies; below
\* is the result for the next smaller p.
CallPercentile ==
    /\ ~pcall.done
    /\ \E p \in 0..100 :
          pcall' = [p |-> p, done |-> TRUE,
                    out |-> percentile(SortedCopy(col.latencies), p),
                    below |-> percentile(SortedCopy(col.latencies),
                                         IF p > 0 THEN p - 1 ELSE p)]
    /\ UNCHANGED <<col, now, lastStats, prevStats, firstRecord, frozen,
                   lockVars, collectorFrame>>

PctNext ==
    \/ CallPercentile
    \/ CallGetStats

PctSpec == PctInit /\ [][PctNext]_vars

\* The element the nearest-rank rule names: index min(floor(p*n/100), n-1)
\* of the list indexed from 0, and 0 for the empty list.
ExactPercentile(sorted, p) ==
    IF Len(sorted) = 0 THEN 0
    ELSE LET n == Len(sorted)
             r == (p * n) \div 100
         IN  IF r >= n THEN sorted[n] ELSE sorted[r + 1]

\* C24 as stated: percentile(sorted, p) is the element at index
\* min(floor(p*n/100), n-1), 0 for the empty list, and a snapshot's median,
\* p95 and p99 are percentile at 50, 95 and 99 of the sorted latencies.
C24_NearestRank ==
    /\ pcall.done =>
          pcall.out = ExactPercentile(SortedCopy(col.latencies), pcall.p)
    /\ (lastStats.Taken /\ lastStats.Samples > 0) =>
          /\ lastStats.MedianLatency
                = toMs(ExactPercentile(SortedCopy(col.latencies), 50))
          /\ lastStats.P95Latency
                = toMs(ExactPercentile(SortedCopy(col.latencies), 95))
          /\ lastStats.P99Latency
                = toMs(ExactPercentile(SortedCopy(col.latencies), 99))

\* C25: percentile at 100 is the largest latency, at 0 the smallest, the
\* result never decreases when p grows by one, and every snapshot has
\* min <= median <= p95 <= p99 <= max.
C25_Ordered ==
    /\ (pcall.done /\ col.latencies # <<>>) =>
          /\ pcall.below <= pcall.out
          /\ \A i \in 1..Len(col.latencies) :
                /\ pcall.p = 100 => col.latencies[i] <= pcall.out
                /\ pcall.p = 0 => pcall.out <= col.latencies[i]
          /\ \E i \in 1..Len(col.latencies) : col.latencies[i] = pcall.out
    /\ lastStats.Taken =>
          /\ RatioLeq(lastStats.MinLatency, lastStats.MedianLatency)
          /\ RatioLeq(lastStats.MedianLatency, lastStats.P95Latency)
          /\ RatioLeq(lastStats.P95Latency, lastStats.P99Latency)
          /\ RatioLeq(lastStats.P99Latency, lastStats.MaxLatency)

\* C25 witness: on an unsorted list, percentile grew from one p to the next
\* and a snapshot was taken whose median is above its minimum.
C25_Witness ==
    /\ pcall.done
    /\ pcall.below < pcall.out
    /\ lastStats.Taken
    /\ lastStats.MinLatency # lastStats.MedianLatency
    /\ col.latencies # SortedCopy(col.latencies)

\* The snapshot without the fields computed from the elapsed time
Timeless(st) == [st EXCEPT !.Duration = ZeroFloat, !.RequestsPerSec = ZeroFloat]

\* C26 as stated: two consecutive snapshots with no mutating call between
\* are equal in every field but the duration before Stop, and in every
\* field after Stop.
C26_EqualButDuration ==
    (prevStats.Taken /\ lastStats.Taken) =>
        IF col.endTime # ZeroTime THEN prevStats = lastStats
        ELSE [prevStats EXCEPT !.Duration = ZeroFloat]
               = [lastStats EXCEPT !.Duration = ZeroFloat]

\* C26 amended: before Stop they are equal in every field but the duration
\* and the requests per second computed from it; after Stop in every field.
C26_EqualButElapsed ==
    (prevStats.Taken /\ lastStats.Taken) =>
        IF col.endTime # ZeroTime THEN prevStats = lastStats
        ELSE Timeless(prevStats) = Timeless(lastStats)

\* C26 witness: two consecutive snapshots of a running collector with
\* requests recorded, taken at different times; and two of a stopped one.
C26_Witness ==
    /\ prevStats.Taken /\ lastStats.Taken
    /\ col.totalRequests > 0
    /\ col.endTime = ZeroTime
    /\ prevStats.Duration # lastStats.Duration

\* C27 as stated, for a stopped collector: the duration of a snapshot is the
\* time from the first recorded request to Stop.
C27_FromFirstRecord ==
    (lastStats.Taken /\ firstRecord # ZeroTime /\ col.endTime >= firstRecord) =>
        lastStats.Duration = Seconds(col.endTime - firstRecord)

\* C28 as stated: from a Stop to the next Reset every snapshot reports the
\* same duration.
C28_DurationFrozen ==
    Cardinality(frozen) <= 1

-----------------------------------------------------------------------------
\* The callers of the Collector under c.mu, a sync.RWMutex: Lock first
\* excludes other writers and announces itself, which blocks every later
\* RLock, and then waits for the active readers to leave.

WriteMethods == {"RecordRequestOk", "RecordRequestErr", "RecordRejection",
                 "Stop", "Reset"}
ReadMethods == {"GetStats", "ExportPrometheus"}
RecordMethods == {"RecordRequestOk", "RecordRequestErr", "RecordRejection"}

lockFrame == <<metricsVars, collectorFrame>>

\* Variant: RLock admits a reader whatever the writers do.
ReaderAdmittedAlways(m) == m.readers >= 0

\* RWMutex.RLock proceeds only with no writer pending or holding the lock.
ReaderAdmitted(m) == m.writer = 0

\* A caller enters a method, up to its first lock operation.
TCall(t) ==
    /\ tpc[t] = "idle"
    /\ tcalls[t] < MaxCalls
    /\ \E m \in WriteMethods \cup ReadMethods :
          /\ top' = [top EXCEPT ![t] = m]
          /\ tpc' = [tpc EXCEPT ![t] = IF m \in WriteMethods THEN "lock" ELSE "rlock"]
    /\ tcalls' = [tcalls EXCEPT ![t] = @ + 1]
    /\ UNCHANGED <<col, now, lastStats, prevStats, firstRecord, frozen, pcall,
                   mu, treg, tstats, recorded, collectorFrame>>

\* c.mu.Lock(), first half: the caller becomes the pending writer.
TLock(t) ==
    /\ tpc[t] = "lock"
    /\ mu.writer = 0
    /\ mu' = [mu EXCEPT !.writer = t]
    /\ tpc' = [tpc EXCEPT ![t] = "drain"]
    /\ UNCHANGED <<top, treg, tstats, tcalls, recorded, lockFrame>>

\* c.mu.Lock(), second half: the active readers have left.
TLockAcquired(t) ==
    /\ tpc[t] = "drain"
    /\ mu.readers = 0
    /\ mu' = [mu EXCEPT !.held = TRUE]
    /\ tpc' = [tpc EXCEPT ![t] = CASE top[t] \in RecordMethods -> "loadTotal"
                                    [] top[t] = "Stop" -> "stop"
                                    [] top[t] = "Reset" -> "reset"]
    /\ UNCHANGED <<top, treg, tstats, tcalls, recorded, lockFrame>>

\* c.totalRequests++: the load
TLoadTotal(t) ==
    /\ tpc[t] = "loadTotal"
    /\ treg' = [treg EXCEPT ![t] = col.totalRequests]
    /\ tpc' = [tpc EXCEPT ![t] = "storeTotal"]
    /\ UNCHANGED <<mu, top, tstats, tcalls, recorded, lockFrame>>

\* c.totalRequests++: the store
TStoreTotal(t) ==
    /\ tpc[t] = "storeTotal"
    /\ col' = [col EXCEPT !.totalRequests = treg[t] + 1]
    /\ tpc' = [tpc EXCEPT ![t] = "loadOutcome"]
    /\ UNCHANGED <<now, lastStats, prevStats, firstRecord, frozen, pcall, mu,
                   top, treg, tstats, tcalls, recorded, collectorFrame>>

\* The counter a record method increments after the total
OutcomeField(m) ==
    CASE m = "RecordRequestOk" -> "successRequests"
      [] m = "RecordRequestErr" -> "errorRequests"
      [] m = "RecordRejection" -> "rejectedRequests"

\* c.successRequests++, c.errorRequests++ or c.rejectedRequests++: the load
TLoadOutcome(t) ==
    /\ tpc[t] = "loadOutcome"
    /\ treg' = [treg EXCEPT ![t] = col[OutcomeField(top[t])]]
    /\ tpc' = [tpc EXCEPT ![t] = "storeOutcome"]
    /\ UNCHANGED <<mu, top, tstats, tcalls, recorded, lockFrame>>

\* ... and the store
TStoreOutcome(t) ==
    /\ tpc[t] = "storeOutcome"
    /\ col' = [col EXCEPT ![OutcomeField(top[t])] = treg[t] + 1]
    /\ tpc' = [tpc EXCEPT ![t] = IF top[t] = "RecordRejection" THEN "unlock"
                                   ELSE "append"]
    /\ UNCHANGED <<now, lastStats, prevStats, firstRecord, frozen, pcall, mu,
                   top, treg, tstats, tcalls, recorded, collectorFrame>>

\* c.latencies = append(c.latencies, latency)
TAppend(t) ==
    /\ tpc[t] = "append"
    /\ col' = [col EXCEPT !.latencies = Append(@, Millisecond)]
    /\ tpc' = [tpc EXCEPT ![t] = "unlock"]
    /\ UNCHANGED <<now, lastStats, prevStats, firstRecord, frozen, pcall, mu,
                   top, treg, tstats, tcalls, recorded, collectorFrame>>

\* Stop's assignment
TStop(t) ==
    /\ tpc[t] = "stop"
    /\ col' = Stop(col, now)
    /\ tpc' = [tpc EXCEPT ![t] = "unlock"]
    /\ UNCHANGED <<now, lastStats, prevStats, firstRecord, frozen, pcall, mu,
                   top, treg, tstats, tcalls, recorded, collectorFrame>>

\* Reset's assignments
TReset(t) ==
    /\ tpc[t] = "reset"
    /\ col' = Reset(col, now)
    /\ recorded' = 0
    /\ tpc' = [tpc EXCEPT ![t] = "unlock"]
    /\ UNCHANGED <<now, lastStats, prevStats, firstRecord, frozen, pcall, mu,
                   top, treg, tstats, tcalls, collectorFrame>>

\* The deferred c.mu.Unlock(); a record call is complete.
TUnlock(t) ==
    /\ tpc[t] = "unlock"
    /\ mu' = [mu EXCEPT !.writer = 0, !.held = FALSE]
    /\ recorded' = IF top[t] \in RecordMethods THEN recorded + 1 ELSE recorded
    /\ tpc' = [tpc EXCEPT ![t] = "idle"]
    /\ UNCHANGED <<top, treg, tstats, tcalls, lockFrame>>

\* c.mu.RLock() of GetStats and of ExportPrometheus
TRLock(t) ==
    /\ tpc[t] = "rlock"
    /\ ReaderAdmitted(mu)
    /\ mu' = [mu EXCEPT !.readers = @ + 1]
    /\ tpc' = [tpc EXCEPT ![t] = IF top[t] = "ExportPrometheus" THEN "counters"
                                   ELSE "snapshot"]
    /\ UNCHANGED <<top, treg, tstats, tcalls, recorded, lockFrame>>

\* ExportPrometheus formats the counters, then calls c.GetStats().
TExportCounters(t) ==
    /\ tpc[t] = "counters"
    /\ tpc' = [tpc EXCEPT ![t] = "rlockInner"]
    /\ UNCHANGED <<mu, top, treg, tstats, tcalls, recorded, lockFrame>>

\* c.mu.RLock() of the GetStats that ExportPrometheus calls
TRLockInner(t) ==
    /\ tpc[t] = "rlockInner"
    /\ ReaderAdmitted(mu)
    /\ mu' = [mu EXCEPT !.readers = @ + 1]
    /\ tpc' = [tpc EXCEPT ![t] = "snapshot"]
    /\ UNCHANGED <<top, treg, tstats, tcalls, recorded, lockFrame>>

\* The body of GetStats
TSnapshot(t) ==
    /\ tpc[t] = "snapshot"
    /\ tstats' = [tstats EXCEPT ![t] = CollectorGetStats(col, now)]
    /\ tpc' = [tpc EXCEPT ![t] = "runlock"]
    /\ UNCHANGED <<mu, top, treg, tcalls, recorded, lockFrame>>

\* GetStats's deferred c.mu.RUnlock()
TRUnlock(t) ==
    /\ tpc[t] = "runlock"
    /\ mu' = [mu EXCEPT !.readers = @ - 1]
    /\ tpc' = [tpc EXCEPT ![t] = IF top[t] = "ExportPrometheus" THEN "runlockOuter"
                                   ELSE "idle"]
    /\ UNCHANGED <<top, treg, tstats, tcalls, recorded, lockFrame>>

\* ExportPrometheus's deferred c.mu.RUnlock()
TRUnlockOuter(t) ==
    /\ tpc[t] = "runlockOuter"
    /\ mu' = [mu EXCEPT !.readers = @ - 1]
    /\ tpc' = [tpc EXCEPT ![t] = "idle"]
    /\ UNCHANGED <<top, treg, tstats, tcalls, recorded, lockFrame>>

LockNext ==
    \E t \in Threads :
        \/ TCall(t)
        \/ TLock(t)
        \/ TLockAcquired(t)
        \/ TLoadTotal(t)
        \/ TStoreTotal(t)
        \/ TLoadOutcome(t)
        \/ TStoreOutcome(t)
        \/ TAppend(t)
        \/ TStop(t)
        \/ TReset(t)
        \/ TUnlock(t)
        \/ TRLock(t)
        \/ TExportCounters(t)
        \/ TRLockInner(t)
        \/ TSnapshot(t)
        \/ TRUnlock(t)
        \/ TRUnlockOuter(t)

LockInit ==
    /\ Constructed(1, 1, 0)
    /\ KeysPresent
    /\ NoCall
    /\ NewOptimizedHandler
    /\ CollectorCreated
    /\ IdleCallers
    /\ NoLoadTest
    /\ OthersIdle

LockSpec == LockInit /\ [][LockNext]_vars

\* The caller waits in a lock operation that cannot proceed.
Blocked(t) ==
    \/ tpc[t] = "lock" /\ mu.writer # 0
    \/ tpc[t] = "drain" /\ mu.readers # 0
    \/ tpc[t] \in {"rlock", "rlockInner"} /\ ~ReaderAdmitted(mu)

\* C29: no update is lost and no snapshot sees a half-made one. Whenever no
\* writer holds the lock, the total is the number of record calls completed
\* since the last Reset and the sum of the three outcome counters, and there
\* is one latency per success or error; every snapshot has these sums too.
C29_NoLostUpdate ==
    /\ ~mu.held =>
          /\ col.totalRequests = recorded
          /\ col.totalRequests
                = col.successRequests + col.errorRequests + col.rejectedRequests
          /\ Len(col.latencies) = col.successRequests + col.errorRequests
    /\ \A t \in Threads :
          tstats[t].Taken =>
              /\ tstats[t].TotalRequests
                    = tstats[t].SuccessRequests + tstats[t].ErrorRequests
                      + tstats[t].RejectedRequests
              /\ tstats[t].Samples
                    = tstats[t].SuccessRequests + tstats[t].ErrorRequests

\* C29 witness: one record call is complete and a snapshot has seen it; a
\* second record call has stored the total and not yet its outcome counter,
\* while a caller of GetStats waits for the lock.
C29_Witness ==
    /\ recorded = 1
    /\ col.totalRequests = 2
    /\ \E t \in Threads : tstats[t].Taken /\ tstats[t].TotalRequests = 1
    /\ \E t, u \in Threads :
          /\ tpc[t] = "storeOutcome"
          /\ tpc[u] = "rlock"
          /\ Blocked(u)

\* C30 as stated: a call of ExportPrometheus never ends up waiting for the
\* lock with every caller inside a method waiting for it as well.
C30_ExportReturns ==
    ~ \E t \in Threads :
          /\ top[t] = "ExportPrometheus"
          /\ tpc[t] # "idle"
          /\ \A u \in Threads : tpc[u] # "idle" => Blocked(u)

-----------------------------------------------------------------------------
\* The load test (runTest) on the worker pool: config.Concurrency goroutines
\* share config.TotalRequests calls of HandleRequest, each under
\* context.Background(), and every goroutine records the outcome of a call
\* in the run's Collector before it makes its next call.

\* Bound: the most submitting goroutines of a load test.
MaxConcurrency == 2

\* Variant: a goroutine per request, none waiting for another.
EarlierNone(j) == {}

\* The requests before j of the goroutine that makes request j. Goroutine i
\* makes TotalRequests / Concurrency requests, one more if
\* i < TotalRequests % Concurrency: the requests dealt out in turn.
Earlier(j) == {k \in 1..(j - 1) : (k - 1) % concurrency = (j - 1) % concurrency}

\* "for j := 0; j < numRequests; j++": the goroutine reaches the call of
\* request j when its earlier requests have been recorded.
Released(j) == \A k \in Earlier(j) : logged[k]

\* "_, err := handler.HandleRequest(ctx, patientID)": the enqueue select under
\* a context that is never Done, on a queue that is not closed.
LoadEnqueue(j) == Released(j) /\ HandleRequestEnqueue(j)

LoadBlock(j) == Released(j) /\ HandleRequestBlock(j)

LoadUnblock(j) == Released(j) /\ HandleRequestUnblock(j)

LoadTimeout(j) == Released(j) /\ HandleRequestTimeout(j)

LoadHandleRequest(j) ==
    \/ LoadEnqueue(j)
    \/ LoadBlock(j)
    \/ LoadUnblock(j)
    \/ LoadTimeout(j)

\* "success := err == nil": HandleRequest returns a nil error with a response
\* received from resultChan only.
Success(j) == outcome[j] = "success"

\* "latency := time.Since(requestStart); success := err == nil;
\*  collector.RecordRequest(latency, success)"
LoadRecord(j) ==
    /\ spc[j] = "done"
    /\ ~logged[j]
    /\ \E latency \in Latencies : col' = RecordRequest(col, latency, Success(j))
    /\ logged' = [logged EXCEPT ![j] = TRUE]
    /\ firstRecord' = IF firstRecord = ZeroTime THEN now ELSE firstRecord
    /\ UNCHANGED <<now, lastStats, prevStats, frozen, pcall, lockVars, concurrency,
                   errorRate, queueVars, simVars, reuseVars, otherVars>>

\* "wg.Wait(); collector.Stop(); stats := collector.GetStats()"
LoadFinish ==
    /\ \A j \in Jobs : logged[j]
    /\ col.endTime = ZeroTime
    /\ col' = Stop(col, now)
    /\ prevStats' = lastStats
    /\ lastStats' = CollectorGetStats(col', now)
    /\ frozen' = frozen \cup {lastStats'.Duration}
    /\ UNCHANGED <<now, firstRecord, pcall, lockVars, collectorFrame>>

LoadInit ==
    /\ \E nw \in 1..MaxWorkers, q \in 1..MaxQueueSize : Constructed(nw, q, MaxJobs)
    /\ KeysPresent
    /\ NoCall
    /\ NewOptimizedHandler
    /\ CollectorCreated
    /\ IdleCallers
    /\ concurrency \in 1..MaxConcurrency
    /\ errorRate \in {0, DefaultErrorRate}
    /\ logged = [j \in Jobs |-> FALSE]
    /\ OthersIdle

\* The workers while no context is Done and the queue is open.
LoadWorker(w) ==
    \/ WorkerDequeue(w)
    \/ ProcessCount(w)
    \/ ProcessQuery(w)
    \/ ProcessDeliverErr(w)
    \/ ProcessDeliverResult(w)

\* The wait select of HandleRequest under a context that is never Done.
LoadAwait(j) ==
    \/ IncQueued(j)
    \/ ReceiveResult(j)
    \/ ReceiveErr(j)

LoadNext ==
    \/ \E w \in WorkerIds : LoadWorker(w)
    \/ \E j \in Jobs : LoadHandleRequest(j)
    \/ \E j \in Jobs : LoadAwait(j)
    \/ \E j \in Jobs : LoadRecord(j)
    \/ LoadFinish

LoadSpec == LoadInit /\ [][LoadNext]_vars

\* Requests whose call of HandleRequest returned the queue-full error.
QueueFull == {j \in Jobs : spc[j] = "done" /\ outcome[j] = "queuefull"}

\* Requests whose call returned an error of the source.
SourceErrors == {j \in Jobs : spc[j] = "done" /\ outcome[j] \in {"dberr", "cancelerr"}}

\* C31: the statistics of a load test count every request that was turned
\* away because the queue was full as rejected, and not as an error and
\* without a latency sample: the rejected count is the number of queue-full
\* outcomes returned to the submitters, the error count the number of the
\* source's errors, the samples those of the requests not turned away.
C31_RejectionsCounted ==
    lastStats.Taken =>
        /\ lastStats.RejectedRequests = Cardinality(QueueFull)
        /\ lastStats.ErrorRequests = Cardinality(SourceErrors)
        /\ lastStats.Samples = njobs - Cardinality(QueueFull)

\* C35: in a load test whose goroutines are no more than the queue's capacity,
\* a request that reaches the enqueue select finds room in the queue at once:
\* no call blocks there and none returns queue-full; and when the source
\* never fails, the statistics of the run show every one of the TotalRequests
\* recorded, all of them as successes.
C35_ClosedLoopFits ==
    concurrency <= queueSize =>
        /\ \A j \in Jobs : Pending(j) /\ Released(j) => CanSend(jobQueue, queueSize)
        /\ \A j \in Jobs : spc[j] # "blocked" /\ outcome[j] # "queuefull"
        /\ lastStats.Taken /\ errorRate = 0 =>
              /\ lastStats.TotalRequests = njobs
              /\ lastStats.SuccessRequests = njobs
              /\ lastStats.ErrorRequests = 0

\* A run of two goroutines on a queue of two and a single worker, with a
\* source that never fails, has ended and its statistics are taken.
C35_Witness ==
    /\ concurrency = 2
    /\ queueSize = 2
    /\ workers = 1
    /\ errorRate = 0
    /\ lastStats.Taken
    /\ lastStats.SuccessRequests = MaxJobs
    /\ Len(enqLog) = MaxJobs

-----------------------------------------------------------------------------
\* The HTTP server (main): the pattern handler is mounted on /api/v1/patients
\* as it is, with nothing around it, and /metrics exports the statistics of
\* the Collector created at start-up.

\* metricsHandler: ExportJSON and ExportPrometheus both export c.GetStats().
MetricsRequest == CallGetStats

ServerInit ==
    /\ \E nw \in 1..MaxWorkers, q \in 1..MaxQueueSize : Constructed(nw, q, PoolJobs)
    /\ KeysPresent
    /\ NoCall
    /\ NewOptimizedHandler
    /\ CollectorCreated
    /\ IdleCallers
    /\ NoLoadTest
    /\ OthersIdle

\* A request to /api/v1/patients: mux.Handle("/api/v1/patients", handler)
PatientsRequest(j) ==
    \/ ServeHTTPEnqueue(j)
    \/ ServeHTTPCancelled(j)
    \/ ServeHTTPReject(j)
    \/ AwaitResult(j)
    \/ CancelJob(j)

ServerNext ==
    \/ \E w \in WorkerIds : RunningWorker(w)
    \/ \E j \in Jobs : PatientsRequest(j)
    \/ MetricsRequest

ServerSpec == ServerInit /\ [][ServerNext]_vars

\* Patient requests whose outcome has been returned to the client.
Completed == {j \in Jobs : spc[j] = "done"}

\* C32: in the HTTP server every patient request whose outcome was returned to
\* its client is recorded in the Collector: once all the requests made are
\* completed, the total that /metrics reports is their number.
C32_ResponsesRecorded ==
    Completed = 1..njobs =>
        CollectorGetStats(col, now).TotalRequests = Cardinality(Completed)

-----------------------------------------------------------------------------
\* A burst on the smallest pool: one worker, a queue of one, and MaxJobs
\* requests to ServeHTTP that have all passed the enqueue select before the
\* processing of any job has completed. No request's context is Done.

\* Every request of the burst has passed the enqueue select.
BurstOver == \A j \in Jobs : spc[j] # "idle"

\* The worker, which completes no job (processJob does not return) while the
\* burst lasts.
BurstDeliverErr(w) == BurstOver /\ ProcessDeliverErr(w)

BurstDeliverResult(w) == BurstOver /\ ProcessDeliverResult(w)

BurstWorker(w) ==
    \/ WorkerDequeue(w)
    \/ ProcessCount(w)
    \/ ProcessQuery(w)
    \/ BurstDeliverErr(w)
    \/ BurstDeliverResult(w)

BurstSubmit(j) ==
    \/ ServeHTTPEnqueue(j)
    \/ ServeHTTPReject(j)
    \/ IncQueued(j)
    \/ ReceiveResult(j)
    \/ ReceiveErr(j)

BurstInit ==
    /\ Constructed(1, 1, MaxJobs)
    /\ KeysPresent
    /\ NoCall
    /\ NewOptimizedHandler
    /\ CollectorCreated
    /\ IdleCallers
    /\ NoLoadTest
    /\ OthersIdle

BurstNext ==
    \/ \E w \in WorkerIds : BurstWorker(w)
    \/ \E j \in Jobs : BurstSubmit(j)

BurstSpec == BurstInit /\ [][BurstNext]_vars

\* Requests whose job was taken into the queue, and requests answered 503.
Accepted == {j \in Jobs : spc[j] \in {"sent", "wait"} \/ outcome[j] \in {"success", "dberr"}}
Rejected == {j \in Jobs : outcome[j] = "http503"}

\* C33 as stated: of three requests in a burst on a pool of one worker and a
\* queue of one, exactly two are accepted and exactly one is rejected.
C33_AsStated ==
    BurstOver => Cardinality(Accepted) = 2 /\ Cardinality(Rejected) = 1

\* C33: of the requests of such a burst, at least one and at most two are
\* accepted (one held by the worker, one in the queue) and every other one is
\* rejected with queue-full.
C33_OneOrTwoAccepted ==
    BurstOver =>
        /\ Cardinality(Accepted) \in 1..2
        /\ Cardinality(Rejected) = MaxJobs - Cardinality(Accepted)

\* The burst is over with two requests accepted and one rejected.
C33_Witness ==
    /\ BurstOver
    /\ Cardinality(Accepted) = 2
    /\ Cardinality(Rejected) = 1
    /\ workers = 1
    /\ queueSize = 1

-----------------------------------------------------------------------------
\* C34: for every latency range NewDatabase accepts, 0 <= min <= max with
\* min = max included, a call of QueryPatient draws a delay between min and
\* max and ends with a record or with an error: it never crashes.
C34_NoCrash ==
    qpc = "done" =>
        /\ qresult.kind \in {"patient", "dberr", "cancelerr"}
        /\ qin.min <= qlatency /\ qlatency <= qin.max

-----------------------------------------------------------------------------
\* Termination of Shutdown, on the pool serving requests whose contexts are
\* never Done. The Go scheduler keeps running every worker goroutine and the
\* goroutine that called Shutdown; every call of the source returns
\* (ProcessQuery is a single step). Nothing is assumed of the arrival of
\* requests or of the deadline of the context given to Shutdown.

TermWorker(w) ==
    \/ WorkerExitCancelled(w)
    \/ WorkerExitClosed(w)
    \/ WorkerDequeue(w)
    \/ ProcessCount(w)
    \/ ProcessQuery(w)
    \/ ProcessDeliverErr(w)
    \/ ProcessDeliverResult(w)

TermRequest(j) ==
    \/ ServeHTTPEnqueue(j)
    \/ ServeHTTPReject(j)
    \/ ServeHTTPSendOnClosed(j)
    \/ IncQueued(j)
    \/ ReceiveResult(j)
    \/ ReceiveErr(j)

\* The steps Shutdown takes by itself once it has been called.
ShutdownProceeds ==
    \/ ShutdownCancel
    \/ ShutdownReturnOk
    \/ ShutdownReturnTimeout

TermNext ==
    \/ \E w \in WorkerIds : TermWorker(w)
    \/ \E j \in Jobs : TermRequest(j)
    \/ Shutdown

TermSpec ==
    /\ Init
    /\ [][TermNext]_vars
    /\ \A w \in WorkerIds : WF_vars(TermWorker(w))
    /\ WF_vars(ShutdownProceeds)

\* C36: once Shutdown has been called every worker eventually leaves its
\* loop, and a Shutdown whose deadline never fires eventually returns nil.
C36_ShutdownTerminates ==
    /\ (shpc # "idle") ~> AllWorkersExited
    /\ <>shCtxDone \/ ((shpc # "idle") ~> (shResult = "ok"))

\* Shutdown was called while a worker was processing a job and a job was
\* waiting in the queue, its deadline has not fired, and it has returned nil
\* with all workers gone.
C36_Witness ==
    /\ shResult = "ok"
    /\ ~shCtxDone
    /\ shCall.held # {}
    /\ AllWorkersExited
    /\ Len(deqLog) = PoolJobs

-----------------------------------------------------------------------------
\* A second call of Shutdown on the same pool.

\* Every variable of the pool, the source, the container reuse, the Collector
\* and the load test.
coreVars == <<queueVars, simVars, reuseVars, metricsVars, lockVars, loadVars>>

\* close(ch): "close of closed channel" is a run-time panic.
Close(isClosed) == IF isClosed THEN "panic" ELSE "closed"

\* Shutdown is called once more after a first call has begun (the pool is
\* draining) or has returned (it is stopped): its first statement is
\* close(h.jobQueue). The statements after it are reached only if the close
\* returns, which it does not on the queue the first call has closed.
ShutdownAgain ==
    /\ shpc # "idle"
    /\ sh2 = "none"
    /\ sh2' = Close(closed)
    /\ UNCHANGED <<coreVars, warmVars, rw, naiveVars>>

AgainNext ==
    \/ TermNext
    \/ ShutdownAgain

AgainSpec == Init /\ [][AgainNext]_vars

\* C37: a second call of Shutdown on a pool that is draining or stopped
\* returns a result to its caller: it does not crash.
C37_SecondShutdownReturns == sh2 # "panic"

-----------------------------------------------------------------------------
\* The optimized handler with requests that arrive one by one: a request
\* enters ServeHTTP or HandleRequest, its job is handed to a worker, and the
\* request is in flight until its entry point has returned.

\* Requests that have entered the handler and have not returned.
InFlight == {j \in OptJobs : arrived[j] /\ osub[j] # "done"}

\* The larger of two numbers.
Max(a, b) == IF a >= b THEN a ELSE b

\* A request enters ServeHTTP or HandleRequest and its job reaches a worker.
OptArrive(j) ==
    /\ ~arrived[j]
    /\ arrived' = [arrived EXCEPT ![j] = TRUE]
    /\ peak' = Max(peak, Cardinality(InFlight) + 1)
    /\ opc' = [opc EXCEPT ![j] = "start"]
    /\ osub' = [osub EXCEPT ![j] = "wait"]
    /\ UNCHANGED <<responsePool, resp, nextResp, poolHits, poolMisses, oresp,
                   octx, ochan, ocaller, acquires, reuses, handed, released,
                   osettled, queueVars, simVars, metricsVars, lockVars,
                   loadVars, sh2, rw, naiveVars>>

\* NewOptimizedHandler, before any request has arrived.
WarmInit ==
    /\ Constructed(1, 1, 0)
    /\ KeysPresent
    /\ NoCall
    /\ CollectorCreated
    /\ IdleCallers
    /\ NoLoadTest
    /\ OthersIdle
    /\ responsePool = {}
    /\ resp = [c \in Containers |-> EmptyResponse]
    /\ nextResp = 0
    /\ poolHits = 0
    /\ poolMisses = 0
    /\ opc = [j \in OptJobs |-> "none"]
    /\ oresp = [j \in OptJobs |-> NoResp]
    /\ octx = [j \in OptJobs |-> FALSE]
    /\ ochan = [j \in OptJobs |-> [resp |-> NoResp, err |-> FALSE]]
    /\ osub = [j \in OptJobs |-> "idle"]
    /\ ocaller = [j \in OptJobs |-> NoResp]
    /\ acquires = 0
    /\ reuses = 0
    /\ handed = [c \in Containers |-> 0]
    /\ released = [c \in Containers |-> 0]
    /\ osettled = [j \in OptJobs |-> FALSE]

WarmNext ==
    \/ \E j \in OptJobs : OptArrive(j)
    \/ ReuseNext

WarmSpec == WarmInit /\ [][WarmNext]_vars

\* C38: the number of pool misses (containers that New has constructed)
\* never exceeds the largest number of requests that were in flight at the
\* same time.
C38_MissesWithinPeak == GetPoolStats[2] <= peak

-----------------------------------------------------------------------------
\* What ServeHTTP writes to its http.ResponseWriter. A response writer keeps a
\* header map that the handler may change at any time; the status line and
\* the header map as it is at that moment are sent by the first WriteHeader,
\* which the first Write makes with 200 if none was made; what is put into
\* the map afterwards is not sent (net/http).

StatusOK == 200
StatusBadRequest == 400
StatusRequestTimeout == 408
StatusInternalServerError == 500
StatusServiceUnavailable == 503

\* w.Header().Set(key, value)
HeaderSet(w, key, value) ==
    [w EXCEPT !.header = {p \in @ : p[1] # key} \cup {<<key, value>>}]

\* w.WriteHeader(code)
WriteHeader(w, code) ==
    IF w.wroteHeader
    THEN w
    ELSE [w EXCEPT !.wroteHeader = TRUE, !.status = code, !.sent = w.header]

\* w.Write(...), as json.NewEncoder(w).Encode(response) and fmt.Fprintln(w, ...) do
Write(w) ==
    [(IF w.wroteHeader THEN w ELSE WriteHeader(w, StatusOK)) EXCEPT !.body = @ + 1]

\* http.Error(w, text, code): sets Content-Type and X-Content-Type-Options,
\* then WriteHeader(code) and the text
Error(w, code) ==
    Write(WriteHeader(
        HeaderSet(HeaderSet(w, "Content-Type", "text/plain; charset=utf-8"),
                  "X-Content-Type-Options", "nosniff"),
        code))

\* Variant: the Retry-After header is set before http.Error is called.
RejectStatementsHeaderFirst ==
    <<[op |-> "Set", key |-> "Retry-After", value |-> "1"],
      [op |-> "Error", code |-> StatusServiceUnavailable]>>

\* The statements of the default case of the enqueue select, in their order:
\* http.Error(w, "service overloaded, please retry", 503), then
\* w.Header().Set("Retry-After", "1")
RejectStatements ==
    <<[op |-> "Error", code |-> StatusServiceUnavailable],
      [op |-> "Set", key |-> "Retry-After", value |-> "1"]>>

\* The statements ServeHTTP runs on w for each outcome of the request.
Statements(o) ==
    CASE o = "http400" -> <<[op |-> "Error", code |-> StatusBadRequest]>>
      [] o = "http408" -> <<[op |-> "Error", code |-> StatusRequestTimeout]>>
      [] o = "ctxdone" -> <<[op |-> "Error", code |-> StatusRequestTimeout]>>
      [] o = "http503" -> RejectStatements
      [] o = "success" ->
            <<[op |-> "Set", key |-> "Content-Type", value |-> "application/json"],
              [op |-> "Write"]>>
      [] o \in {"dberr", "cancelerr"} ->
            <<[op |-> "Set", key |-> "Content-Type", value |-> "application/json"],
              [op |-> "WriteHeader", code |-> StatusInternalServerError],
              [op |-> "Write"]>>
      [] OTHER -> <<>>

\* One statement applied to the response writer.
Run(w, st) ==
    CASE st.op = "Set" -> HeaderSet(w, st.key, st.value)
      [] st.op = "WriteHeader" -> WriteHeader(w, st.code)
      [] st.op = "Write" -> Write(w)
      [] st.op = "Error" -> Error(w, st.code)

\* ServeHTTP runs the next statement of the outcome it has arrived at.
WriteResponse(j) ==
    /\ spc[j] = "done"
    /\ rw[j].calls < Len(Statements(outcome[j]))
    /\ rw' = [rw EXCEPT ![j] =
                 [Run(@, Statements(outcome[j])[@.calls + 1]) EXCEPT !.calls = @ + 1]]
    /\ UNCHANGED <<coreVars, sh2, warmVars, naiveVars>>

\* ServeHTTP has returned.
Returned(j) == spc[j] = "done" /\ rw[j].calls = Len(Statements(outcome[j]))

HttpRequest(j) ==
    \/ ServeHTTPEnqueue(j)
    \/ ServeHTTPCancelled(j)
    \/ ServeHTTPReject(j)
    \/ AwaitResult(j)
    \/ CancelJob(j)
    \/ WriteResponse(j)

HttpNext ==
    \/ \E w \in WorkerIds : RunningWorker(w)
    \/ \E j \in Jobs : HttpRequest(j)

HttpSpec == ServerInit /\ [][HttpNext]_vars

\* C39: the response to a request rejected because the queue is full has
\* status 503 and carries the header Retry-After: 1.
C39_RetryAfterSent ==
    \A j \in Jobs :
        outcome[j] = "http503" /\ Returned(j) =>
            /\ rw[j].status = StatusServiceUnavailable
            /\ <<"Retry-After", "1">> \in rw[j].sent

-----------------------------------------------------------------------------
\* The naive handler (patterns/naive.go): a goroutine per request, counted in
\* activeGoroutines, and a Shutdown that polls the counter.

naiveFrame == <<coreVars, sh2, warmVars, rw>>

\* Request goroutines that have been spawned and have not finished.
Running == {r \in NaiveJobs : npc[r].gor \notin {"none", "finished"}}

\* ServeHTTP: "go h.processRequest(w, r, patientID)"
NaiveServeSpawn(r) ==
    /\ npc[r].entry = "none"
    /\ npc' = [npc EXCEPT ![r] = [entry |-> "http", caller |-> "spawned", gor |-> "spawned"]]
    /\ UNCHANGED <<activeGoroutines, nshut, naiveFrame>>

\* ServeHTTP, after the go statement: atomic.AddInt64(&h.activeGoroutines, 1)
NaiveServeCount(r) ==
    /\ npc[r].entry = "http"
    /\ npc[r].caller = "spawned"
    /\ activeGoroutines' = activeGoroutines + 1
    /\ npc' = [npc EXCEPT ![r].caller = "done"]
    /\ UNCHANGED <<nshut, naiveFrame>>

\* HandleRequest: "go func() { ... }()", then the caller waits for the result
NaiveHandleSpawn(r) ==
    /\ npc[r].entry = "none"
    /\ npc' = [npc EXCEPT ![r] = [entry |-> "direct", caller |-> "wait", gor |-> "spawned"]]
    /\ UNCHANGED <<activeGoroutines, nshut, naiveFrame>>

\* HandleRequest's goroutine, first statement: atomic.AddInt64(&h.activeGoroutines, 1)
NaiveGoCount(r) ==
    /\ npc[r].entry = "direct"
    /\ npc[r].gor = "spawned"
    /\ activeGoroutines' = activeGoroutines + 1
    /\ npc' = [npc EXCEPT ![r].gor = "counted"]
    /\ UNCHANGED <<nshut, naiveFrame>>

\* The goroutine calls QueryPatient and writes the response (processRequest)
\* or sends it on its buffered channel (HandleRequest).
NaiveQuery(r) ==
    /\ \/ npc[r].entry = "http" /\ npc[r].gor = "spawned"
       \/ npc[r].entry = "direct" /\ npc[r].gor = "counted"
    /\ npc' = [npc EXCEPT ![r].gor = "queried"]
    /\ UNCHANGED <<activeGoroutines, nshut, naiveFrame>>

\* The goroutine returns: "defer atomic.AddInt64(&h.activeGoroutines, -1)"
NaiveReturn(r) ==
    /\ npc[r].gor = "queried"
    /\ activeGoroutines' = activeGoroutines - 1
    /\ npc' = [npc EXCEPT ![r].gor = "finished"]
    /\ UNCHANGED <<nshut, naiveFrame>>

\* HandleRequest: the caller receives from resultChan or errChan
NaiveReceive(r) ==
    /\ npc[r].caller = "wait"
    /\ npc[r].gor \in {"queried", "finished"}
    /\ npc' = [npc EXCEPT ![r].caller = "done"]
    /\ UNCHANGED <<activeGoroutines, nshut, naiveFrame>>

\* Shutdown: "active := atomic.LoadInt64(&h.activeGoroutines);
\* if active == 0 { return nil }"; running is the number of request
\* goroutines still running when it returns.
NaiveShutdownLoad ==
    /\ nshut.pc \in {"idle", "loop"}
    /\ nshut' = IF activeGoroutines = 0
                THEN [nshut EXCEPT !.pc = "done", !.active = activeGoroutines,
                                   !.result = "ok", !.running = Cardinality(Running)]
                ELSE [nshut EXCEPT !.pc = "select", !.active = activeGoroutines]
    /\ UNCHANGED <<activeGoroutines, npc, naiveFrame>>

\* Shutdown: "select { case <-ctx.Done(): return fmt.Errorf(...); default: continue }"
NaiveShutdownSelect ==
    /\ nshut.pc = "select"
    /\ nshut' = IF nshut.ctxDone
                THEN [nshut EXCEPT !.pc = "done", !.result = "timeout",
                                   !.running = Cardinality(Running)]
                ELSE [nshut EXCEPT !.pc = "loop"]
    /\ UNCHANGED <<activeGoroutines, npc, naiveFrame>>

\* The context given to Shutdown is Done.
NaiveShutdownDeadline ==
    /\ nshut.pc # "done"
    /\ ~nshut.ctxDone
    /\ nshut' = [nshut EXCEPT !.ctxDone = TRUE]
    /\ UNCHANGED <<activeGoroutines, npc, naiveFrame>>

NaiveRequest(r) ==
    \/ NaiveServeSpawn(r)
    \/ NaiveServeCount(r)
    \/ NaiveHandleSpawn(r)
    \/ NaiveGoCount(r)
    \/ NaiveQuery(r)
    \/ NaiveReturn(r)
    \/ NaiveReceive(r)

NaiveShutdown ==
    \/ NaiveShutdownLoad
    \/ NaiveShutdownSelect
    \/ NaiveShutdownDeadline

NaiveNext ==
    \/ \E r \in NaiveJobs : NaiveRequest(r)
    \/ NaiveShutdown

\* NewNaiveHandler(db), beside a pool that is not used.
NaiveInit ==
    /\ Constructed(1, 1, 0)
    /\ KeysPresent
    /\ NoCall
    /\ NewOptimizedHandler
    /\ CollectorCreated
    /\ IdleCallers
    /\ NoLoadTest
    /\ OthersIdle

NaiveSpec == NaiveInit /\ [][NaiveNext]_vars

\* C40: activeGoroutines is never negative and is the number of request
\* goroutines spawned and not yet finished; and Shutdown returns nil only
\* when no request goroutine is running.
C40_CounterIsRunning ==
    /\ activeGoroutines >= 0
    /\ activeGoroutines = Cardinality(Running)
    /\ nshut.result = "ok" => nshut.running = 0

====
